---- MODULE Spec2Model ----
(***************************************************************************)
(* Generation-batch orchestrator of Portrait Studio (App.tsx, latest       *)
(* revision = src/unnamed/part_000, with services/geminiService.ts and     *)
(* components/ImageGrid.tsx).                                              *)
(*                                                                         *)
(* The program is single-threaded: every action below is one macrotask of  *)
(* the event loop (a user event, or the arrival of a remote response)      *)
(* together with all the microtask continuations it triggers.  React state *)
(* is written with functional updaters (prev => ...), so every update is   *)
(* applied to the latest state; a handler invoked by a click closes over   *)
(* the state of the render the click happened in.                          *)
(*                                                                         *)
(* The scene text and the subject data (useState scenePrompt, photos) are  *)
(* read by the orchestrator in one place only, the closure of the click    *)
(* that starts a batch; their editors do nothing but write them.  They are *)
(* therefore the inputs of handleGenerate, drawn at the click, and are     *)
(* kept in the record of the invocation that closed over them; so is the   *)
(* selected number of variations (useState numImages).  handleGenerate     *)
(* takes the sets its inputs are drawn from as parameters, and each        *)
(* specification below states the sets it explores.                        *)
(*                                                                         *)
(* Identifiers: a placeholder id is `gen-${Date.now()}-${i}`.  A batch can *)
(* only be started by a click made after the previous start, and the model *)
(* takes the clock to have advanced between the two, so the id is the pair *)
(* <<batch number, i>>.                                                    *)
(***************************************************************************)
EXTENDS Integers, Sequences, FiniteSets, TLC

\* ---------------------------------------------------------------- bounds
MaxBatches      == 2   \* valid start_batch invocations, with retries explored
MaxCacheBatches == 3   \* valid start_batch invocations, without retries
MaxWideBatches  == 1   \* valid start_batch invocations, every batch size
MaxRetryOps     == 2   \* invocations of retry_item / retry_all_failed
MaxItems        == 8   \* Generation Items created over one run
MaxRetryChain   == 7   \* retry_item invocations, one batch and no other operation
MaxUploads      == 1   \* handleFilesChange invocations per page load
MaxFiles        == 2   \* files of one handleFilesChange invocation
MaxPhotos       == 2   \* photos held at a time
MaxLayoutPhotos == 3   \* photos handed to prompt assembly
MaxSubjects     == 2   \* subjects of one photo handed to prompt assembly
MaxAdded        == 1   \* subjects added by hand and not deleted
MaxLedgerBatches == 1  \* valid start_batch invocations next to an upload
MaxUsageLogs    == 2   \* usage records at which no further gateway call is made directly

\* ------------------------------------------------------- input alphabets
\* scene-prompt texts the user can type ('' is the initial text)
ScenePrompts == {"", " ", "a", "b"}
ValidPrompts == {"a", "b"}

\* (mutant) a validation that does not trim
TrimNothing(s) == s

\* String.prototype.trim on the texts above
Trim(s) == IF s = " " THEN "" ELSE IF s = " k1 " THEN "k1" ELSE s

\* the options of the variation selector
Variations == {2, 4, 8}

\* the subject data (photos with their characters) the user can have set up
PhotoNone == <<>>
PhotoOne  == << [id |-> "p1", file |-> "f1",
                 characters |-> << [id |-> "p1-char-0", name |-> "Ann",
                                    description |-> "d1"] >>] >>
PhotoTwo  == << [id |-> "p1", file |-> "f1",
                 characters |-> << [id |-> "p1-char-0", name |-> "Ann",
                                    description |-> "d2"] >>] >>
PhotoStates == {PhotoNone, PhotoOne, PhotoTwo}

\* subject data of any shape: up to MaxLayoutPhotos photos, each with up to
\* MaxSubjects subjects (a photo can have lost all of its subjects)
Layout(counts) ==
    [k \in 1..Len(counts) |->
        [id |-> <<"photo", k>>, file |-> <<"file", k>>,
         characters |-> [j \in 1..counts[k] |->
                            [id |-> <<"char", k, j>>, name |-> <<"name", k, j>>,
                             description |-> <<"looks", k, j>>]]]]

PhotoLayouts ==
    { Layout(counts) :
        counts \in UNION { [1..n -> 0..MaxSubjects] : n \in 1..MaxLayoutPhotos } }

\* what the remote rewrite returns for a scene prompt (response.text.trim())
Rewrite(p) == IF p = "a" THEN "brief-a" ELSE IF p = "b" THEN "brief-b" ELSE "brief"

\* outcomes of the remote rewrite call: a text, an empty text, a failure
OptimizeOutcomes == {"ok", "empty", "fail"}
OptimizeErrorMessage == "Service Overloaded (503)."

\* outcomes of the prompt assembly (image resampling can reject)
AssembleOutcomes == {"ok", "fail"}
AssembleErrorMessage == "Could not get canvas context"

\* outcomes of one remote generate call: an image or a normalized failure
QuotaMessage   == "Quota Exceeded (429)."
RefusedMessage == "Blocked by Safety Filters"
GenerateErrors == {QuotaMessage, RefusedMessage}
GenerateOutcomes == {"ok"} \cup GenerateErrors

\* raw failures of a remote call, before normalization: the SDK's errors for
\* HTTP 429 and 503, a blocked prompt, an answer with no parts, and answers
\* that hold a text instead of an image
RawQuota       == "429 RESOURCE_EXHAUSTED: You exceeded your current quota"
RawOverloaded  == "503 UNAVAILABLE: The model is overloaded"
PromptBlocked  == "Prompt Blocked: SAFETY"
EmptyResponse  == "Empty response from model."
TextReply      == "No image generated. Message: \"I cannot create this image.\""
TextReplyQuota == "No image generated. Message: \"That is beyond my quota of faces.\""
RawFailures ==
    {RawQuota, RawOverloaded, PromptBlocked, RefusedMessage, EmptyResponse,
     TextReply, TextReplyQuota}

\* getAI's error for an empty key
MissingKeyMessage == "API_KEY is missing. Please enter your Gemini API Key."

\* failures of the analysis call besides the remote ones above: a truncated
\* answer, and an answer that is not JSON, whose text JSON.parse quotes
MalformedAnswer    == "SyntaxError: Unexpected end of JSON input"
MalformedAnswer429 == "SyntaxError: Unexpected token 'R', \"Room 429 is\"... is not valid JSON"

\* which of the substrings the code looks for a message contains
Mentions(msg) ==
    IF msg = RawQuota THEN {"RESOURCE_EXHAUSTED", "429", "quota"}
    ELSE IF msg = MissingKeyMessage THEN {"API_KEY is missing"}
    ELSE IF msg = MalformedAnswer429 THEN {"429"}
    ELSE IF msg = RawOverloaded THEN {"503"}
    ELSE IF msg = TextReplyQuota THEN {"quota"}
    ELSE IF msg = QuotaMessage THEN {"Quota Exceeded", "429"}
    ELSE IF msg = OptimizeErrorMessage THEN {"503", "Overloaded"}
    ELSE {}

\* cleanError: the quota message for RESOURCE_EXHAUSTED / 429 / quota, the
\* overload message for 503 / Overloaded, else the message as it is
cleanError(msg) ==
    IF Mentions(msg) \cap {"RESOURCE_EXHAUSTED", "429", "quota"} # {}
    THEN QuotaMessage
    ELSE IF Mentions(msg) \cap {"503", "Overloaded"} # {}
    THEN OptimizeErrorMessage
    ELSE msg

DefaultModel == "gemini-3-pro-image-preview"
FlashModel   == "gemini-2.5-flash-image"

\* ------------------------------------------------------------- the state
VARIABLES
    generationResults,        \* useState generationResults
    isGenerating,             \* useState isGenerating (batch-busy flag)
    isPromptOptimizing,       \* useState isPromptOptimizing
    globalError,              \* useState globalError ("" = null)
    abortControllerRef,       \* controller of the active batch (0 = null)
    lastUsedScenePromptRef,   \* optimization cache: key
    cachedOptimizedPromptRef, \* optimization cache: value
    lastGeneratedPayloadRef,  \* <<>> = null, else <<[imageParts, fullPrompt]>>
    batches,                  \* one record per handleGenerate invocation
    retryOps,                 \* one record per retry invocation
    calls,                    \* generate calls in flight
    localStorageKey,          \* localStorage 'obo_gemini_key' ("" = absent)
    envApiKey,                \* process.env.API_KEY of the build ("" = absent)
    aistudio,                 \* window.aistudio: absent, or its key selection
    dynamicApiKey,            \* the key of the gateway module
    hasApiKey,                \* useState hasApiKey
    apiKeySource,             \* useState apiKeySource ("" = null)
    isCheckingKey,            \* useState isCheckingKey
    manualApiKey,             \* useState manualApiKey (the key input field)
    requests,                 \* network requests of the gateway in flight
    thrown,                   \* per gateway operation: what its last call threw
                              \* before issuing a request ("" = nothing)
    uploadedPhotos,           \* useState photos
    uploads,                  \* one record per handleFilesChange invocation
    usageLogs                 \* useState usageLogs, newest record first

keyVars == << localStorageKey, envApiKey, aistudio, dynamicApiKey, hasApiKey,
              apiKeySource, isCheckingKey, manualApiKey >>

gatewayVars == << requests, thrown >>

photoVars == << uploadedPhotos, uploads >>

sessionVars == << keyVars, gatewayVars, photoVars >>

batchVars == << generationResults, isGenerating,
                isPromptOptimizing, abortControllerRef,
                lastUsedScenePromptRef, cachedOptimizedPromptRef,
                lastGeneratedPayloadRef, batches, retryOps, calls >>

vars == << generationResults, isGenerating,
           isPromptOptimizing, globalError, abortControllerRef,
           lastUsedScenePromptRef, cachedOptimizedPromptRef,
           lastGeneratedPayloadRef, batches, retryOps, calls, sessionVars,
           usageLogs >>

cacheVars == << lastUsedScenePromptRef, cachedOptimizedPromptRef >>


\* ------------------------------------------------------- pure functions
Min(a, b) == IF a < b THEN a ELSE b

\* photos.flatMap(p => p.characters)
RECURSIVE allCharacters(_)
allCharacters(ps) ==
    IF ps = <<>> THEN <<>>
    ELSE Head(ps).characters \o allCharacters(Tail(ps))

\* (mutant) manifest lines that carry the 0-based index of the photo
RECURSIVE characterManifestZeroBased(_, _)
characterManifestZeroBased(ps, photoIndex) ==
    IF photoIndex >= Len(ps) THEN <<>>
    ELSE [j \in 1..Len(ps[photoIndex + 1].characters) |->
             [name        |-> ps[photoIndex + 1].characters[j].name,
              ref         |-> photoIndex,
              description |-> ps[photoIndex + 1].characters[j].description]]
         \o characterManifestZeroBased(ps, photoIndex + 1)

\* the manifest lines of constructPromptPayload: one per character, each
\* naming the 1-based index of the photo that owns the character
RECURSIVE characterManifest(_, _)
characterManifest(ps, photoIndex) ==
    IF photoIndex >= Len(ps) THEN <<>>
    ELSE [j \in 1..Len(ps[photoIndex + 1].characters) |->
             [name        |-> ps[photoIndex + 1].characters[j].name,
              ref         |-> photoIndex + 1,
              description |-> ps[photoIndex + 1].characters[j].description]]
         \o characterManifest(ps, photoIndex + 1)

\* (mutant) an assembly that hands back the retained pair when there is one
constructFromRetained(ps, scene) ==
    IF lastGeneratedPayloadRef # <<>> THEN lastGeneratedPayloadRef[1]
    ELSE [imageParts |-> [k \in 1..Len(ps) |-> ps[k].file],
          fullPrompt |-> [scene    |-> scene,
                          manifest |-> characterManifest(ps, 0)]]

\* constructPromptPayload(photos, scenePrompt): the reference images in
\* photo order and the final prompt (fixed preamble, scene text, manifest)
constructPromptPayload(ps, scene) ==
    [imageParts |-> [k \in 1..Len(ps) |-> ps[k].file],
     fullPrompt |-> [scene    |-> scene,
                     manifest |-> characterManifest(ps, 0)]]

\* (mutant) a cache that never hits
CacheNeverHits(prompt, lastUsed, cached) == FALSE

\* (mutant) a cache that ignores its key
CacheIgnoresKey(prompt, lastUsed, cached) == cached # ""

\* the cache test of handleGenerate
CacheHit(prompt, lastUsed, cached) == prompt = lastUsed /\ cached # ""

\* Array.from({length: numImages}, (_, i) => ({id, status: 'pending'}))
Placeholder(b, i) ==
    [id |-> <<b, i>>, status |-> "pending", imageUrl |-> "",
     errorMessage |-> "", isQuotaError |-> FALSE, retryCount |-> 0]

\* (mutant) an off-by-one placeholder list
PlaceholdersShort(b, n) == [i \in 1..(n - 1) |-> Placeholder(b, i)]

Placeholders(b, n) == [i \in 1..n |-> Placeholder(b, i)]

\* errMsg.includes('429') || includes('Quota Exceeded') || includes('RESOURCE_EXHAUSTED')
IsQuotaMessage(msg) ==
    Mentions(msg) \cap {"429", "Quota Exceeded", "RESOURCE_EXHAUSTED"} # {}

\* safetyMitigationVariations.length
SafetyMitigationCount == 6

\* (mutant) a mitigation index that does not saturate
VariationIndexUnclamped(retryCount) == retryCount + 1

\* Math.min(retryCount + 1, safetyMitigationVariations.length - 1)
VariationIndex(retryCount) == Min(retryCount + 1, SafetyMitigationCount - 1)

\* failedResult.isQuotaError ? 'gemini-2.5-flash-image' : undefined, then
\* modelOverride || 'gemini-3-pro-image-preview' in generateSinglePortrait
ModelToUse(failedResult) ==
    IF failedResult.isQuotaError THEN FlashModel ELSE DefaultModel

\* the image a model returns
ImageFrom(model) == IF model = FlashModel THEN "data:flash" ELSE "data:pro"

\* ------------------------------------------ updaters of generationResults
\* (mutant) a cancel that removes the pending items from the list
CancelDropsPending(results) ==
    SelectSeq(results, LAMBDA res : res.status # "pending")

\* (mutant) a cancel that marks every item, whatever its status
CancelAll(results) ==
    [k \in 1..Len(results) |-> [results[k] EXCEPT !.status = "cancelled"]]

\* handleCancel: res.status === 'pending' ? {...res, status: 'cancelled'} : res
CancelPending(results) ==
    [k \in 1..Len(results) |->
        IF results[k].status = "pending"
        THEN [results[k] EXCEPT !.status = "cancelled"] ELSE results[k]]

\* (mutant) a success that drops the image
MarkSuccessOnly(results, id, imageUrl) ==
    [k \in 1..Len(results) |->
        IF results[k].id = id
        THEN [results[k] EXCEPT !.status = "success"] ELSE results[k]]

\* fan-out / retry success: {...res, status: 'success', imageUrl}
MarkSuccess(results, id, imageUrl) ==
    [k \in 1..Len(results) |->
        IF results[k].id = id
        THEN [results[k] EXCEPT !.status = "success", !.imageUrl = imageUrl]
        ELSE results[k]]

\* (mutant) the cancellation callback marks by status instead of by id
MarkCancelledAny(results, id) == CancelPending(results)

\* fan-out catch under cancellation: {...res, status: 'cancelled'}
MarkCancelled(results, id) ==
    [k \in 1..Len(results) |->
        IF results[k].id = id
        THEN [results[k] EXCEPT !.status = "cancelled"] ELSE results[k]]

\* (mutant) a failure that marks every item of the list, not only its own
MarkErrorAll(results, id, errMsg) ==
    [k \in 1..Len(results) |->
        [results[k] EXCEPT !.status = "error", !.errorMessage = errMsg,
                           !.isQuotaError = IsQuotaMessage(errMsg)]]

\* fan-out / retry failure: {...res, status: 'error', errorMessage, isQuotaError}
MarkError(results, id, errMsg) ==
    [k \in 1..Len(results) |->
        IF results[k].id = id
        THEN [results[k] EXCEPT !.status = "error", !.errorMessage = errMsg,
                                !.isQuotaError = IsQuotaMessage(errMsg)]
        ELSE results[k]]

\* (mutant) a catch block that marks the first item only
MarkFirstError(results) ==
    [k \in 1..Len(results) |->
        IF k = 1
        THEN [results[k] EXCEPT !.status = "error",
                                !.errorMessage = "Initialization failed."]
        ELSE results[k]]

\* handleGenerate catch: every item {...res, status: 'error', errorMessage}
MarkAllError(results) ==
    [k \in 1..Len(results) |->
        [results[k] EXCEPT !.status = "error",
                           !.errorMessage = "Initialization failed."]]

\* handleRetryImage: {...res, status: 'pending', errorMessage: undefined,
\*                    retryCount: retryCount + 1, isQuotaError: false}
MarkRetrying(results, id, retryCount) ==
    [k \in 1..Len(results) |->
        IF results[k].id = id
        THEN [results[k] EXCEPT !.status = "pending", !.errorMessage = "",
                                !.retryCount = retryCount + 1,
                                !.isQuotaError = FALSE]
        ELSE results[k]]

\* generationResults.findIndex(r => r.id === id) !== -1, on the ids of the
\* render the handler closed over
FoundIn(snapshotIds, id) == \E k \in 1..Len(snapshotIds) : snapshotIds[k] = id

\* generationResults.filter(r => r.status === 'error')
\* (mutant) a retry_all_failed that takes every item of the list
FailedResultsAny(results) == results

RECURSIVE FailedResults(_)
FailedResults(results) ==
    IF results = <<>> THEN <<>>
    ELSE IF Head(results).status = "error"
         THEN <<Head(results)>> \o FailedResults(Tail(results))
         ELSE FailedResults(Tail(results))

\* ----------------------------------------------------------- bookkeeping
RECURSIVE TotalItems(_)
TotalItems(bs) ==
    IF bs = <<>> THEN 0 ELSE Head(bs).numImages + TotalItems(Tail(bs))

\* (mutant) a signal that never reads as aborted
IsAbortedNever(b) == FALSE

\* signal?.aborted for the controller of batch b (0 = no signal)
IsAborted(b) == b # 0 /\ batches[b].aborted

InitialCalls(cs, b) == {c \in cs : c.src = "initial" /\ c.op = b}
RetryCalls(cs)      == {c \in cs : c.src = "retry"}

\* (mutant) a catch test that looks at the message only, not at the signal
IsCancellationByMessage(message, aborted) == message = "Cancelled"

\* the catch test of handleGenerate and of the fan-out callbacks
IsCancellation(message, aborted) == message = "Cancelled" \/ aborted

\* generateSinglePortrait: what the caller gets for a remote outcome.  With
\* the signal aborted the result is the 'Cancelled' error, whatever returned;
\* any other failure is thrown through cleanError.
generateSinglePortrait(call, outcome) ==
    IF call.signal # 0 /\ IsAborted(call.signal)
    THEN [ok |-> FALSE, value |-> "Cancelled"]
    ELSE IF outcome = "ok"
         THEN [ok |-> TRUE, value |-> ImageFrom(call.model)]
         ELSE [ok |-> FALSE, value |-> cleanError(outcome)]

\* outcomes of a remote call that are no answer of the model: the request is
\* rejected (generateContent throws)
Rejections == {"fail", QuotaMessage, RawQuota, RawOverloaded}

\* generateContent resolved: the statements after the await run
Responded(outcome) == outcome \notin Rejections

\* the action labels and the model of the text calls
GenerateAction == "Generate Portrait (Image)"
OptimizeAction == "Optimize Prompt (Text)"
AnalyzeAction  == "Analyze Photo (Vision)"
TextModel      == "gemini-3-pro-preview"
VisionModel    == "gemini-2.5-flash"

\* handleLogUsage: setUsageLogs(prev => [newLog, ...prev])
handleLogUsage(logs, action, model) ==
    <<[action |-> action, model |-> model]>> \o logs

\* (mutant) a generate call that logs its answer before it looks at the signal
LogsGenerateAnswered(call, outcome) == Responded(outcome)

\* generateSinglePortrait reaches its onLogUsage: the request was answered
\* and the signal, if there is one, has not fired
LogsGenerate(call, outcome) ==
    Responded(outcome) /\ ~(call.signal # 0 /\ IsAborted(call.signal))

\* the ledger after a generate call has settled
LoggedGenerate(logs, call, outcome) ==
    IF LogsGenerate(call, outcome)
    THEN handleLogUsage(logs, GenerateAction, call.model)
    ELSE logs

\* ------------------------------------------------------------------ Init
\* The session the batch operations run in: the startup has taken the key of
\* the build, the main screen is shown, no photo is being analysed.
Configured ==
    /\ localStorageKey = ""
    /\ envApiKey = "kEnv"
    /\ aistudio = "absent"
    /\ dynamicApiKey = "kEnv"
    /\ hasApiKey = TRUE
    /\ apiKeySource = "env"
    /\ isCheckingKey = FALSE
    /\ manualApiKey = ""
    /\ requests = {}
    /\ thrown = [op \in {"analyze", "rewrite", "generate"} |-> ""]
    /\ uploadedPhotos = <<>>
    /\ uploads = <<>>
    /\ usageLogs = <<>>

Init ==
    /\ generationResults = <<>>
    /\ isGenerating = FALSE
    /\ isPromptOptimizing = FALSE
    /\ globalError = ""
    /\ abortControllerRef = 0
    /\ lastUsedScenePromptRef = ""
    /\ cachedOptimizedPromptRef = ""
    /\ lastGeneratedPayloadRef = <<>>
    /\ batches = <<>>
    /\ retryOps = <<>>
    /\ calls = {}
    /\ Configured

\* ------------------------------------------------------------ start_batch
\* The Generate button is live when idle with subjects and a scene text; the
\* Regenerate button whenever idle with a result list on display.
GenerateClickable(scenePrompt, photos) ==
    /\ ~isGenerating
    /\ \/ (allCharacters(photos) # <<>> /\ Trim(scenePrompt) # "")
       \/ Len(generationResults) > 0

\* the record of a handleGenerate invocation: its closure (scenePrompt,
\* photos, numImages), its controller (aborted), its position (pc) and how
\* it resolved the optimized text (optimize, optimizedPrompt)
NewBatch(scenePrompt, photos, numImages, hit) ==
    [pc              |-> IF hit THEN "assembling" ELSE "optimizing",
     aborted         |-> FALSE,
     scenePrompt     |-> scenePrompt,
     photos          |-> photos,
     numImages       |-> numImages,
     optimize        |-> IF hit THEN "hit" ELSE "inflight",
     optimizedPrompt |-> IF hit THEN cachedOptimizedPromptRef ELSE ""]

\* A finished invocation that is neither the most recent one nor the one
\* before it keeps nothing of its closure: only its item count (the ids it
\* used up) stays on record.
Forgotten(batch) ==
    [pc |-> "done", aborted |-> batch.aborted, scenePrompt |-> "",
     photos |-> <<>>, numImages |-> batch.numImages, optimize |-> "",
     optimizedPrompt |-> ""]

Forget(bs) ==
    [k \in 1..Len(bs) |->
        IF bs[k].pc = "done" /\ k < Len(bs) - 1 THEN Forgotten(bs[k]) ELSE bs[k]]

handleGenerate(prompts, photoStates, counts, maxBatches) ==
    \E scenePrompt \in prompts, photos \in photoStates, numImages \in counts :
    /\ GenerateClickable(scenePrompt, photos)
    /\ IF allCharacters(photos) = <<>>
       THEN /\ globalError' = "Please upload at least one photo and define a character."
            /\ UNCHANGED << generationResults, isGenerating, isPromptOptimizing,
                            abortControllerRef, batches >>
       ELSE IF Trim(scenePrompt) = ""
       THEN /\ globalError' = "Describe the scene first."
            /\ UNCHANGED << generationResults, isGenerating, isPromptOptimizing,
                            abortControllerRef, batches >>
       ELSE LET b   == Len(batches) + 1
                hit == CacheHit(scenePrompt, lastUsedScenePromptRef,
                                cachedOptimizedPromptRef)
            IN  /\ b <= maxBatches
                /\ TotalItems(batches) + numImages <= MaxItems
                /\ isGenerating' = TRUE
                /\ globalError' = ""
                /\ abortControllerRef' = b
                /\ generationResults' = Placeholders(b, numImages)
                /\ isPromptOptimizing' = IF hit THEN isPromptOptimizing ELSE TRUE
                /\ batches' = Forget(Append(batches,
                                            NewBatch(scenePrompt, photos, numImages,
                                                     hit)))
    /\ UNCHANGED << cacheVars, lastGeneratedPayloadRef, retryOps, calls >>
    /\ UNCHANGED << sessionVars, usageLogs >>

\* ----------------------------------------------------------- cancel_batch
\* the body of handleCancel
CancelBatch ==
    /\ batches' = IF abortControllerRef # 0
                  THEN [batches EXCEPT ![abortControllerRef].aborted = TRUE]
                  ELSE batches
    /\ abortControllerRef' = 0
    /\ isGenerating' = FALSE
    /\ isPromptOptimizing' = FALSE
    /\ generationResults' = CancelPending(generationResults)
    /\ UNCHANGED << globalError, cacheVars, lastGeneratedPayloadRef,
                    retryOps, calls >>
    /\ UNCHANGED << sessionVars, usageLogs >>

\* The stop control is rendered only while isGenerating.
handleCancel ==
    /\ isGenerating
    /\ CancelBatch

\* handleCancel invoked with no batch active (cancel_batch is an operation
\* of its own: the handler has no guard, and the stop control stays on screen
\* until the render that follows the clearing of isGenerating is committed)
handleCancelIdle ==
    /\ ~isGenerating
    /\ batches # <<>>
    /\ CancelBatch

\* ------------------------------------------- the pipeline of one batch
\* (mutant) a finally block without the comparison of controllers
FinallyOwnsAlways(b) == TRUE

\* (mutant) a finally block that never finds its own controller installed
FinallyOwnsNever(b) == FALSE

\* finally { if (abortControllerRef.current === controller) {...} }
FinallyOwns(b) == abortControllerRef = b

\* the catch and finally blocks of handleGenerate for a thrown message
BatchThrows(b, message) ==
    /\ IF IsCancellation(message, batches[b].aborted)
       THEN UNCHANGED << globalError, generationResults >>
       ELSE /\ globalError' = message
            /\ generationResults' = MarkAllError(generationResults)
    /\ isGenerating' = IF FinallyOwns(b) THEN FALSE ELSE isGenerating
    /\ isPromptOptimizing' = IF FinallyOwns(b) THEN FALSE ELSE isPromptOptimizing
    /\ abortControllerRef' = IF FinallyOwns(b) THEN 0 ELSE abortControllerRef

\* an early `return` of handleGenerate, through finally
BatchReturns(b) ==
    /\ isGenerating' = IF FinallyOwns(b) THEN FALSE ELSE isGenerating
    /\ isPromptOptimizing' = IF FinallyOwns(b) THEN FALSE ELSE isPromptOptimizing
    /\ abortControllerRef' = IF FinallyOwns(b) THEN 0 ELSE abortControllerRef

\* the rewrite call of batch b returns
OptimizeResolve(b) ==
    /\ batches[b].pc = "optimizing"
    /\ \E outcome \in OptimizeOutcomes :
        /\ usageLogs' = IF Responded(outcome)
                        THEN handleLogUsage(usageLogs, OptimizeAction, TextModel)
                        ELSE usageLogs
        /\ IF outcome = "fail"
           THEN /\ BatchThrows(b, OptimizeErrorMessage)
                /\ batches' = Forget([batches EXCEPT ![b].pc = "done",
                                                     ![b].optimize = "failed"])
                /\ UNCHANGED cacheVars
           ELSE IF IsAborted(b)
           THEN /\ BatchReturns(b)
                /\ batches' = Forget([batches EXCEPT ![b].pc = "done",
                                                     ![b].optimize = "discarded"])
                /\ UNCHANGED << globalError, generationResults, cacheVars >>
           ELSE LET text == IF outcome = "ok" THEN Rewrite(batches[b].scenePrompt)
                            ELSE ""
                IN  /\ lastUsedScenePromptRef' = batches[b].scenePrompt
                    /\ cachedOptimizedPromptRef' = text
                    /\ batches' = [batches EXCEPT ![b].pc = "assembling",
                                                  ![b].optimize = "stored",
                                                  ![b].optimizedPrompt = text]
                    /\ UNCHANGED << globalError, generationResults, isGenerating,
                                    isPromptOptimizing, abortControllerRef >>
    /\ UNCHANGED << lastGeneratedPayloadRef, retryOps, calls >>
    /\ UNCHANGED sessionVars

\* (mutant) a fan-out that sends the raw scene text of the batch
FanOutUnassembled(b, payload) ==
    { [src |-> "initial", op |-> b, id |-> <<b, i>>, model |-> DefaultModel,
       imageParts |-> payload.imageParts,
       prompt |-> [fullPrompt |-> [payload.fullPrompt EXCEPT
                                      !.scene = batches[b].scenePrompt],
                   mitigation |-> 0],
       signal |-> b] : i \in 1..batches[b].numImages }

\* the generate calls the fan-out issues: one per placeholder of the closure
FanOut(b, payload) ==
    { [src |-> "initial", op |-> b, id |-> <<b, i>>, model |-> DefaultModel,
       imageParts |-> payload.imageParts,
       prompt |-> [fullPrompt |-> payload.fullPrompt, mitigation |-> 0],
       signal |-> b] : i \in 1..batches[b].numImages }

\* constructPromptPayload of batch b returns; on success the fan-out follows
AssembleResolve(b) ==
    /\ batches[b].pc = "assembling"
    /\ \E outcome \in AssembleOutcomes :
        IF outcome = "fail"
        THEN /\ BatchThrows(b, AssembleErrorMessage)
             /\ batches' = Forget([batches EXCEPT ![b].pc = "done"])
             /\ UNCHANGED << lastGeneratedPayloadRef, calls >>
        ELSE IF batches[b].aborted
        THEN /\ BatchReturns(b)
             /\ batches' = Forget([batches EXCEPT ![b].pc = "done"])
             /\ UNCHANGED << globalError, generationResults,
                             lastGeneratedPayloadRef, calls >>
        ELSE LET payload == constructPromptPayload(batches[b].photos,
                                                   batches[b].optimizedPrompt)
             IN  /\ lastGeneratedPayloadRef' = <<payload>>
                 /\ isPromptOptimizing' = FALSE
                 /\ calls' = calls \cup FanOut(b, payload)
                 /\ batches' = [batches EXCEPT ![b].pc = "generating"]
                 /\ UNCHANGED << globalError, generationResults, isGenerating,
                                 abortControllerRef >>
    /\ UNCHANGED << cacheVars, retryOps >>
    /\ UNCHANGED << sessionVars, usageLogs >>

\* (mutant) fan-out callbacks that do not look at the signal
FanOutCallbackUnguarded(results, call, r) ==
    IF r.ok THEN MarkSuccess(results, call.id, r.value)
    ELSE MarkError(results, call.id, r.value)

\* the .then / .catch callbacks of the fan-out for one settled call
FanOutCallback(results, call, r) ==
    IF r.ok
    THEN IF IsAborted(call.signal) THEN results
         ELSE MarkSuccess(results, call.id, r.value)
    ELSE IF IsCancellation(r.value, IsAborted(call.signal))
         THEN MarkCancelled(results, call.id)
         ELSE MarkError(results, call.id, r.value)

\* (mutant) a batch that takes its first settled call for its completion
FirstSettled(cs, b, call) == TRUE

\* await Promise.allSettled(promises): the call that settles is the last one
\* of batch b still in flight
AllSettled(cs, b, call) == InitialCalls(cs, b) = {call}

\* one generate call of the fan-out settles with the given remote outcome;
\* after the last one Promise.allSettled resolves and finally runs
GenerateSettleWith(call, outcome) ==
    /\ call \in calls
    /\ call.src = "initial"
    /\ LET b == call.op
           r == generateSinglePortrait(call, outcome)
       IN  /\ generationResults' = FanOutCallback(generationResults, call, r)
           /\ usageLogs' = LoggedGenerate(usageLogs, call, outcome)
           /\ calls' = calls \ {call}
           /\ IF AllSettled(calls, b, call)
              THEN /\ BatchReturns(b)
                   /\ batches' = Forget([batches EXCEPT ![b].pc = "done"])
              ELSE UNCHANGED << isGenerating, isPromptOptimizing,
                                abortControllerRef, batches >>
    /\ UNCHANGED << globalError, cacheVars, lastGeneratedPayloadRef,
                    retryOps >>
    /\ UNCHANGED sessionVars

GenerateSettle(call) ==
    \E outcome \in GenerateOutcomes : GenerateSettleWith(call, outcome)

\* ------------------------------------------------- retry_item, retry_all
RetryContextMissing ==
    "Cannot retry: generation data not available. Please regenerate all."

Ids(results) == [k \in 1..Len(results) |-> results[k].id]

\* the generate call handleRetryImage(failedResult) issues for operation r
RetryCall(r, failedResult, payload) ==
    [src |-> "retry", op |-> r, id |-> failedResult.id,
     model |-> ModelToUse(failedResult),
     imageParts |-> payload.imageParts,
     prompt |-> [fullPrompt |-> payload.fullPrompt,
                 mitigation |-> VariationIndex(failedResult.retryCount)],
     signal |-> 0]

\* (mutant) a retry_all_failed that issues all its retries at once
IssuedAll(failedResults) == failedResults

\* which of the failed results a retry_all_failed has in flight at a time:
\* the loop awaits handleRetryImage for one result before it takes the next
IssuedNow(failedResults) == <<Head(failedResults)>>

RECURSIVE RetryingAll(_, _)
RetryingAll(results, failedResults) ==
    IF failedResults = <<>> THEN results
    ELSE RetryingAll(MarkRetrying(results, Head(failedResults).id,
                                  Head(failedResults).retryCount),
                     Tail(failedResults))

\* The synchronous part of handleRetryImage up to its await, for the results
\* `todo` taken by operation r, whose closure saw the ids snapshotIds: a
\* result the closure does not find returns at once, the others are marked
\* pending and their calls issued.  Precondition: the generation context
\* exists (it is never reset once stored).
RetryIssue(r, kind, snapshotIds, todo, results, inflight) ==
    LET payload == lastGeneratedPayloadRef[1]
        found   == SelectSeq(todo, LAMBDA f : FoundIn(snapshotIds, f.id))
        now     == IF found = <<>> THEN <<>> ELSE IssuedNow(found)
        rest    == SubSeq(found, Len(now) + 1, Len(found))
        record  == IF now = <<>>
                   THEN [kind |-> "done", snapshotIds |-> <<>>, queue |-> <<>>]
                   ELSE [kind |-> kind, snapshotIds |-> snapshotIds,
                         queue |-> rest]
    IN  /\ generationResults' = RetryingAll(results, now)
        /\ calls' = inflight \cup
                    { RetryCall(r, now[k], payload) : k \in 1..Len(now) }
        /\ retryOps' = IF r > Len(retryOps) THEN Append(retryOps, record)
                       ELSE [retryOps EXCEPT ![r] = record]

\* (mutant) a handleRetryImage that marks the failed items pending before it
\* looks for the generation context
RetryWithoutContextMarks ==
    /\ globalError' = RetryContextMissing
    /\ generationResults' = RetryingAll(generationResults,
                                        FailedResults(generationResults))
    /\ UNCHANGED << calls, retryOps >>

\* handleRetryImage with no generation context: setGlobalError and return
RetryWithoutContext ==
    /\ globalError' = RetryContextMissing
    /\ UNCHANGED << generationResults, calls, retryOps >>

\* the Retry button of an item shown in error state (ImageGrid), with the
\* number of retry invocations explored capped at maxOps
handleRetryImageUpTo(maxOps) ==
    /\ \E k \in 1..Len(generationResults) :
        /\ generationResults[k].status = "error"
        /\ IF lastGeneratedPayloadRef = <<>>
           THEN RetryWithoutContext
           ELSE /\ Len(retryOps) < maxOps
                /\ RetryIssue(Len(retryOps) + 1, "single", Ids(generationResults),
                              <<generationResults[k]>>, generationResults, calls)
                /\ UNCHANGED globalError
    /\ UNCHANGED << isGenerating, isPromptOptimizing, abortControllerRef,
                    cacheVars, lastGeneratedPayloadRef, batches >>
    /\ UNCHANGED << sessionVars, usageLogs >>

handleRetryImage == handleRetryImageUpTo(MaxRetryOps)

\* the Retry All Failed button: rendered when idle with an item in error
handleRetryAllFailed ==
    /\ ~isGenerating
    /\ FailedResults(generationResults) # <<>>
    /\ IF lastGeneratedPayloadRef = <<>>
       THEN RetryWithoutContext
       ELSE /\ Len(retryOps) < MaxRetryOps
            /\ RetryIssue(Len(retryOps) + 1, "all", Ids(generationResults),
                          FailedResults(generationResults), generationResults,
                          calls)
            /\ UNCHANGED globalError
    /\ UNCHANGED << isGenerating, isPromptOptimizing, abortControllerRef,
                    cacheVars, lastGeneratedPayloadRef, batches >>
    /\ UNCHANGED << sessionVars, usageLogs >>

\* the try / catch of handleRetryImage for one settled call
RetryCallback(results, call, r) ==
    IF r.ok THEN MarkSuccess(results, call.id, r.value)
    ELSE MarkError(results, call.id, r.value)

\* a retry call settles; a retry_all_failed whose calls have all settled
\* goes on with the next failed result of its list
RetrySettle(call) ==
    /\ call \in calls
    /\ call.src = "retry"
    /\ \E outcome \in GenerateOutcomes :
        LET op      == retryOps[call.op]
            r       == generateSinglePortrait(call, outcome)
            applied == RetryCallback(generationResults, call, r)
            others  == {c \in calls \ {call} : c.src = "retry" /\ c.op = call.op}
        IN  /\ usageLogs' = LoggedGenerate(usageLogs, call, outcome)
            /\ IF op.queue # <<>> /\ others = {}
               THEN RetryIssue(call.op, op.kind, op.snapshotIds, op.queue, applied,
                               calls \ {call})
               ELSE /\ generationResults' = applied
                    /\ calls' = calls \ {call}
                    /\ retryOps' = IF others = {}
                                   THEN [retryOps EXCEPT ![call.op] =
                                           [kind |-> "done", snapshotIds |-> <<>>,
                                            queue |-> <<>>]]
                                   ELSE retryOps
    /\ UNCHANGED << isGenerating, isPromptOptimizing, globalError,
                    abortControllerRef, cacheVars, lastGeneratedPayloadRef,
                    batches >>
    /\ UNCHANGED sessionVars

\* ------------------------------------------------------- the credential
\* what localStorage, the build and the host can hold when the page loads,
\* and the texts typed into the key field
StoredKeys == {"", "k0"}
EnvKeys    == {"", "kEnv"}
Hosts      == {"absent", "unselected", "selected"}
KeyInputs  == {"", " ", "k1", " k1 "}

GatewayOps == {"analyze", "rewrite", "generate"}

SessionExpiredMessage ==
    "Session expired or invalid API Key. Please select your key again."

\* the state of a freshly loaded page: the useState initialisers, and the
\* gateway module's key initialised from the build
Loaded ==
    /\ dynamicApiKey = envApiKey
    /\ hasApiKey = FALSE
    /\ apiKeySource = ""
    /\ isCheckingKey = TRUE
    /\ manualApiKey = ""
    /\ requests = {}
    /\ thrown = [op \in GatewayOps |-> ""]
    /\ uploadedPhotos = <<>>
    /\ uploads = <<>>
    /\ usageLogs = <<>>
    /\ generationResults = <<>>
    /\ isGenerating = FALSE
    /\ isPromptOptimizing = FALSE
    /\ globalError = ""
    /\ abortControllerRef = 0
    /\ lastUsedScenePromptRef = ""
    /\ cachedOptimizedPromptRef = ""
    /\ lastGeneratedPayloadRef = <<>>
    /\ batches = <<>>
    /\ retryOps = <<>>
    /\ calls = {}

\* a page load in any environment
InitSession ==
    /\ localStorageKey \in StoredKeys
    /\ envApiKey \in EnvKeys
    /\ aistudio \in Hosts
    /\ Loaded

\* checkKey's decision: the stored key, else the key of the build, else the
\* host's selection; key is what setGlobalApiKey is called with (<<>> = it is
\* not called)
KeyFrom(stored, env, host) ==
    IF stored # ""
    THEN [has |-> TRUE, source |-> "storage", key |-> <<stored>>]
    ELSE IF env # ""
    THEN [has |-> TRUE, source |-> IF host # "absent" THEN "studio" ELSE "env",
          key |-> <<env>>]
    ELSE [has |-> host = "selected",
          source |-> IF host = "selected" THEN "studio" ELSE "", key |-> <<>>]

\* the startup effect
checkKey ==
    /\ isCheckingKey
    /\ LET found == KeyFrom(localStorageKey, envApiKey, aistudio)
       IN  /\ dynamicApiKey' = IF found.key = <<>> THEN dynamicApiKey
                               ELSE found.key[1]
           /\ hasApiKey' = found.has
           /\ apiKeySource' = found.source
    /\ isCheckingKey' = FALSE
    /\ UNCHANGED << localStorageKey, envApiKey, aistudio, manualApiKey,
                    gatewayVars, photoVars, batchVars, globalError,
                    usageLogs >>

\* the key screen is rendered after the startup check while no key is held
KeyScreen == ~isCheckingKey /\ ~hasApiKey

\* the main screen
MainScreen == ~isCheckingKey /\ hasApiKey

\* typing into the key field of the key screen
setManualApiKey ==
    /\ KeyScreen
    /\ \E text \in KeyInputs : manualApiKey' = text
    /\ UNCHANGED << localStorageKey, envApiKey, aistudio, dynamicApiKey,
                    hasApiKey, apiKeySource, isCheckingKey,
                    gatewayVars, photoVars, batchVars, globalError,
                    usageLogs >>

\* the Save Key button (disabled while the field is blank)
handleSaveManualKey ==
    /\ KeyScreen
    /\ Trim(manualApiKey) # ""
    /\ localStorageKey' = Trim(manualApiKey)
    /\ dynamicApiKey' = Trim(manualApiKey)
    /\ hasApiKey' = TRUE
    /\ apiKeySource' = "storage"
    /\ UNCHANGED << envApiKey, aistudio, isCheckingKey, manualApiKey,
                    gatewayVars, photoVars, batchVars, globalError,
                    usageLogs >>

\* the reset button of the header, rendered for a key from localStorage
handleClearApiKey ==
    /\ MainScreen
    /\ apiKeySource = "storage"
    /\ localStorageKey' = ""
    /\ dynamicApiKey' = ""
    /\ hasApiKey' = FALSE
    /\ apiKeySource' = ""
    /\ manualApiKey' = ""
    /\ UNCHANGED << envApiKey, aistudio, isCheckingKey,
                    gatewayVars, photoVars, batchVars, globalError,
                    usageLogs >>

\* the host's project selector, offered on the key screen and in the header
\* for a 'studio' key when the host is there
handleSelectKey ==
    /\ ~isCheckingKey
    /\ ~hasApiKey \/ apiKeySource = "studio"
    /\ aistudio # "absent"
    /\ aistudio' = "selected"
    /\ hasApiKey' = TRUE
    /\ apiKeySource' = "studio"
    /\ UNCHANGED << localStorageKey, envApiKey, dynamicApiKey, isCheckingKey,
                    manualApiKey, gatewayVars, photoVars, batchVars, usageLogs,
                    globalError >>

\* the page is loaded again: what is in memory starts over, what the
\* browser, the build and the host hold stays
Reload ==
    /\ ~isCheckingKey
    /\ UNCHANGED << localStorageKey, envApiKey, aistudio >>
    /\ dynamicApiKey' = envApiKey
    /\ hasApiKey' = FALSE
    /\ apiKeySource' = ""
    /\ isCheckingKey' = TRUE
    /\ manualApiKey' = ""
    /\ requests' = {}
    /\ thrown' = [op \in GatewayOps |-> ""]
    /\ uploadedPhotos' = <<>>
    /\ uploads' = <<>>
    /\ usageLogs' = <<>>
    /\ generationResults' = <<>>
    /\ isGenerating' = FALSE
    /\ isPromptOptimizing' = FALSE
    /\ globalError' = ""
    /\ abortControllerRef' = 0
    /\ lastUsedScenePromptRef' = ""
    /\ cachedOptimizedPromptRef' = ""
    /\ lastGeneratedPayloadRef' = <<>>
    /\ batches' = <<>>
    /\ retryOps' = <<>>
    /\ calls' = {}

\* handleApiError(err)
handleApiError(message) ==
    IF Mentions(message) \cap {"Requested entity was not found",
                               "API_KEY is missing"} # {}
    THEN /\ hasApiKey' = FALSE
         /\ apiKeySource' = ""
         /\ globalError' = SessionExpiredMessage
    ELSE /\ globalError' = message
         /\ UNCHANGED << hasApiKey, apiKeySource >>

\* ---------------------------------------------------------- the gateway
\* (mutant) a gateway that builds its client whatever the key
getAIUnchecked(key) == [ok |-> TRUE, error |-> ""]

\* getAI: throws for an empty key, before any request is made
getAI(key) ==
    IF key = "" THEN [ok |-> FALSE, error |-> MissingKeyMessage]
    ELSE [ok |-> TRUE, error |-> ""]

\* The first statement of a gateway function called by `by`: with a client
\* the request is issued, without one the call throws.
Enter(op, by) ==
    LET ai == getAI(dynamicApiKey)
    IN  IF ai.ok
        THEN /\ requests' = requests \cup {[op |-> op, by |-> by]}
             /\ thrown' = [thrown EXCEPT ![op] = ""]
        ELSE /\ requests' = requests
             /\ thrown' = [thrown EXCEPT ![op] = ai.error]

\* optimizePrompt is called
optimizePrompt ==
    /\ ~isCheckingKey
    /\ Len(usageLogs) < MaxUsageLogs
    /\ \A q \in requests : q.op # "rewrite"
    /\ Enter("rewrite", 0)
    /\ UNCHANGED << keyVars, photoVars, batchVars, globalError,
                    usageLogs >>

\* generateSinglePortrait is called with a signal that has not fired
generatePortrait ==
    /\ ~isCheckingKey
    /\ Len(usageLogs) < MaxUsageLogs
    /\ \A q \in requests : q.op # "generate"
    /\ Enter("generate", 0)
    /\ UNCHANGED << keyVars, photoVars, batchVars, globalError,
                    usageLogs >>

\* the request of a rewrite or generate call is answered by the model, or
\* it is rejected
Answered ==
    /\ \E q \in requests : \E responded \in BOOLEAN :
        /\ q.op # "analyze"
        /\ requests' = requests \ {q}
        /\ usageLogs' =
              IF ~responded THEN usageLogs
              ELSE IF q.op = "rewrite"
              THEN handleLogUsage(usageLogs, OptimizeAction, TextModel)
              ELSE handleLogUsage(usageLogs, GenerateAction, DefaultModel)
    /\ UNCHANGED << thrown, keyVars, photoVars, batchVars, globalError >>

\* ------------------------------------------------------- photo analysis
\* resizeImageToBase64's rejection
CanvasError == "Could not get canvas context"

\* what the analysis request can come back with: one subject, two, an empty
\* list, or a failure
AnalyzeFailures == {RawQuota, RawOverloaded, MalformedAnswer, MalformedAnswer429}
AnalyzeOutcomes == {"one", "two", "empty"} \cup AnalyzeFailures

\* generic subject names: `Subject ${n}`
Subject(n) == <<"Subject", n>>

\* (mutant) an analysis that rethrows every failure
analyzeRethrowsAll(outcome) ==
    IF outcome \in AnalyzeFailures
    THEN [ok |-> FALSE, value |-> <<>>, error |-> cleanError(outcome)]
    ELSE [ok |-> TRUE, error |-> "",
          value |-> <<[name |-> Subject(1), description |-> "d1"]>>]

\* analyzePhotoForCharacters once its request is answered: the parsed list,
\* a stand-in for an empty one; in the catch, a failure whose text holds
\* '429' is thrown through cleanError, any other becomes a stand-in subject
analyzePhotoForCharacters(outcome) ==
    IF outcome = "one"
    THEN [ok |-> TRUE, error |-> "",
          value |-> <<[name |-> Subject(1), description |-> "d1"]>>]
    ELSE IF outcome = "two"
    THEN [ok |-> TRUE, error |-> "",
          value |-> <<[name |-> Subject(1), description |-> "d1"],
                      [name |-> Subject(2), description |-> "d2"]>>]
    ELSE IF outcome = "empty"
    THEN [ok |-> TRUE, error |-> "",
          value |-> <<[name |-> Subject(1), description |-> "Analysis unclear."]>>]
    ELSE IF "429" \in Mentions(outcome)
    THEN [ok |-> FALSE, value |-> <<>>, error |-> cleanError(outcome)]
    ELSE [ok |-> TRUE, error |-> "",
          value |-> <<[name |-> Subject(1), description |-> "AI analysis failed."]>>]

\* `${photo.id}-char-${index}`
CharId(photo, index) ==
    <<photo, IF index = 0 THEN "char-0" ELSE "char-1">>

\* the character shown while a photo is analysed
LoadingCharacter(photo, count) ==
    [id |-> <<photo, "char-loading">>, name |-> Subject(count + 1),
     description |-> "", isDescriptionLoading |-> TRUE]

\* the character handleFilesChange's catch gives a photo
ErrorCharacter(photo) ==
    [id |-> <<photo, "char-error">>, name |-> <<"Error", 0>>,
     description |-> "Error generating description.",
     isDescriptionLoading |-> FALSE]

\* describedCharacters.map(...): ids by position, the first name the smart
\* name (`Subject ${count}` for a camera file name), the others numbered on
NewCharacters(photo, described, count) ==
    [i \in 1..Len(described) |->
        [id |-> CharId(photo, i - 1), name |-> Subject(count + i - 1),
         description |-> described[i].description,
         isDescriptionLoading |-> FALSE]]

\* (mutant) an update that puts a photo it does not find back into the list
SetCharactersUpsert(ps, photo, characters) ==
    IF \E k \in 1..Len(ps) : ps[k].id = photo
    THEN [k \in 1..Len(ps) |->
            IF ps[k].id = photo THEN [ps[k] EXCEPT !.characters = characters]
            ELSE ps[k]]
    ELSE Append(ps, [id |-> photo, characters |-> characters])

\* setPhotos(prev => prev.map(p => p.id === photo.id ? {...p, characters} : p))
SetCharacters(ps, photo, characters) ==
    [k \in 1..Len(ps) |->
        IF ps[k].id = photo THEN [ps[k] EXCEPT !.characters = characters]
        ELSE ps[k]]

\* A photo id is `${file.name}-${Date.now()}`: no two photos of a page load
\* share one, whatever was removed in between.  The model numbers the photos
\* in the order of their upload; issued is the last number an invocation
\* has used.
LastIssued(ups) == IF ups = <<>> THEN 0 ELSE ups[Len(ups)].issued

\* the upload control of the main screen: the new photos are appended and
\* the loop starts on the first one (loading character, then the resize)
handleFilesChange ==
    /\ MainScreen
    /\ Len(uploads) < MaxUploads
    /\ \E n \in 1..MaxFiles :
        /\ Len(uploadedPhotos) + n <= MaxPhotos
        /\ LET first == LastIssued(uploads) + 1
               total == Len(allCharacters(uploadedPhotos))
               added == uploadedPhotos \o
                        [i \in 1..n |-> [id |-> first + i - 1, characters |-> <<>>]]
           IN  /\ uploadedPhotos' =
                     SetCharacters(added, first, <<LoadingCharacter(first, total)>>)
               /\ uploads' = Append(uploads,
                                    [pc |-> "resize", photo |-> first,
                                     queue |-> [i \in 1..(n - 1) |-> first + i],
                                     count |-> total + 1,
                                     issued |-> first + n - 1])
    /\ UNCHANGED << keyVars, gatewayVars, batchVars, globalError,
                    usageLogs >>

\* The loop of invocation u is through with its photo, which gets the given
\* characters, and goes on to the next photo of its list, if any.
NextPhoto(u, characters, count) ==
    LET op   == uploads[u]
        done == SetCharacters(uploadedPhotos, op.photo, characters)
    IN  IF op.queue = <<>>
        THEN /\ uploadedPhotos' = done
             /\ uploads' = [uploads EXCEPT ![u] =
                              [pc |-> "done", photo |-> 0, queue |-> <<>>,
                               count |-> 0, issued |-> op.issued]]
        ELSE /\ uploadedPhotos' =
                   SetCharacters(done, Head(op.queue),
                                 <<LoadingCharacter(Head(op.queue), count)>>)
             /\ uploads' = [uploads EXCEPT ![u] =
                              [pc |-> "resize", photo |-> Head(op.queue),
                               queue |-> Tail(op.queue), count |-> count + 1,
                               issued |-> op.issued]]

\* the catch of the loop
Caught(u, message) ==
    /\ handleApiError(message)
    /\ NextPhoto(u, <<ErrorCharacter(uploads[u].photo)>>, uploads[u].count)

\* the resize of the current photo of invocation u settles; on success
\* analyzePhotoForCharacters is entered
ResizeResolveWith(u, ok) ==
    /\ uploads[u].pc = "resize"
    /\ IF ~ok
       THEN /\ Caught(u, CanvasError)
            /\ UNCHANGED gatewayVars
       ELSE /\ Enter("analyze", u)
            /\ IF getAI(dynamicApiKey).ok
               THEN /\ uploads' = [uploads EXCEPT ![u].pc = "analyze"]
                    /\ UNCHANGED << uploadedPhotos, globalError, hasApiKey,
                                    apiKeySource >>
               ELSE Caught(u, getAI(dynamicApiKey).error)
    /\ UNCHANGED << localStorageKey, envApiKey, aistudio, dynamicApiKey,
                    isCheckingKey, manualApiKey, batchVars, usageLogs >>

ResizeResolve(u) == \E ok \in BOOLEAN : ResizeResolveWith(u, ok)

\* the analysis request of invocation u is answered
AnalyzeResolveWith(u, outcome) ==
    /\ uploads[u].pc = "analyze"
    /\ requests' = requests \ {[op |-> "analyze", by |-> u]}
    /\ usageLogs' = IF Responded(outcome)
                    THEN handleLogUsage(usageLogs, AnalyzeAction, VisionModel)
                    ELSE usageLogs
    /\ LET r == analyzePhotoForCharacters(outcome)
       IN  IF r.ok
           THEN /\ NextPhoto(u, NewCharacters(uploads[u].photo, r.value,
                                              uploads[u].count),
                             uploads[u].count + Len(r.value) - 1)
                /\ UNCHANGED << globalError, hasApiKey, apiKeySource >>
           ELSE Caught(u, r.error)
    /\ UNCHANGED << thrown, localStorageKey, envApiKey, aistudio,
                    dynamicApiKey, isCheckingKey, manualApiKey, batchVars >>

AnalyzeResolve(u) == \E outcome \in AnalyzeOutcomes : AnalyzeResolveWith(u, outcome)

\* the frame of the handlers that edit the photo list by hand
PhotoEdit ==
    UNCHANGED << uploads, keyVars, gatewayVars, batchVars, globalError,
                 usageLogs >>

\* setPhotos(prev => prev.filter(p => p.id !== photoId))
removePhotoFrom(ps, photoId) == SelectSeq(ps, LAMBDA photo : photo.id # photoId)

\* the trash button of a photo of the main screen
removePhoto ==
    /\ MainScreen
    /\ \E k \in 1..Len(uploadedPhotos) :
          uploadedPhotos' = removePhotoFrom(uploadedPhotos, uploadedPhotos[k].id)
    /\ PhotoEdit

\* the subjects added by hand that are on a photo
Added(ps) ==
    SelectSeq(allCharacters(ps), LAMBDA char : char.id[2] = "char-added")

\* "Add another person from this photo"
addCharacterToPhoto ==
    /\ MainScreen
    /\ Len(Added(uploadedPhotos)) < MaxAdded
    /\ \E k \in 1..Len(uploadedPhotos) :
        LET photo == uploadedPhotos[k]
            totalChars == Len(allCharacters(uploadedPhotos))
            newChar == [id |-> <<photo.id, "char-added">>,
                        name |-> Subject(totalChars + 1), description |-> "",
                        isDescriptionLoading |-> FALSE]
        IN  uploadedPhotos' =
                SetCharacters(uploadedPhotos, photo.id,
                              Append(photo.characters, newChar))
    /\ PhotoEdit

\* the trash button of a subject that is not being analysed
removeCharacterFromPhoto ==
    /\ MainScreen
    /\ \E k \in 1..Len(uploadedPhotos) :
        \E j \in 1..Len(uploadedPhotos[k].characters) :
        LET photo == uploadedPhotos[k]
            char == photo.characters[j]
        IN  /\ ~char.isDescriptionLoading
            /\ uploadedPhotos' =
                  SetCharacters(uploadedPhotos, photo.id,
                                SelectSeq(photo.characters,
                                          LAMBDA c : c.id # char.id))
    /\ PhotoEdit

\* ---------------------------------------------------------- the system
\* One batch size, one scene text, one set of subjects; every interleaving of
\* start, cancel, completion, retry_item and retry_all_failed.
Next ==
    \/ handleGenerate({"a"}, {PhotoOne}, {2}, MaxBatches)
    \/ handleCancel
    \/ \E b \in 1..Len(batches) : OptimizeResolve(b)
    \/ \E b \in 1..Len(batches) : AssembleResolve(b)
    \/ \E call \in calls : GenerateSettle(call)
    \/ handleRetryImage
    \/ handleRetryAllFailed
    \/ \E call \in calls : RetrySettle(call)

Spec == Init /\ [][Next]_vars

\* Successive batches over changing scene texts, no retries.
NextCache ==
    \/ handleGenerate(ValidPrompts, {PhotoOne}, {2}, MaxCacheBatches)
    \/ handleCancel
    \/ \E b \in 1..Len(batches) : OptimizeResolve(b)
    \/ \E b \in 1..Len(batches) : AssembleResolve(b)
    \/ \E call \in calls : GenerateSettle(call)

SpecCache == Init /\ [][NextCache]_vars

\* Every batch size of the variation selector; the batches run to completion
\* (no cancel, no retries).
NextVariations ==
    \/ handleGenerate({"a"}, {PhotoOne}, Variations, MaxWideBatches)
    \/ \E b \in 1..Len(batches) : OptimizeResolve(b)
    \/ \E b \in 1..Len(batches) : AssembleResolve(b)
    \/ \E call \in calls : GenerateSettle(call)

SpecVariations == Init /\ [][NextVariations]_vars

\* Every scene text the user can have typed, with and without subjects: the
\* Regenerate button runs handleGenerate whatever the inputs are.
NextValidation ==
    \/ handleGenerate(ScenePrompts, {PhotoNone, PhotoOne}, {2}, MaxBatches)
    \/ handleCancel
    \/ \E b \in 1..Len(batches) : OptimizeResolve(b)
    \/ \E b \in 1..Len(batches) : AssembleResolve(b)
    \/ \E call \in calls : GenerateSettle(call)

SpecValidation == Init /\ [][NextValidation]_vars

\* One batch whose items are retried one by one, again and again.
NextRetryChain ==
    \/ handleGenerate({"a"}, {PhotoOne}, {2}, MaxWideBatches)
    \/ \E b \in 1..Len(batches) : OptimizeResolve(b)
    \/ \E b \in 1..Len(batches) : AssembleResolve(b)
    \/ \E call \in calls : GenerateSettle(call)
    \/ handleRetryImageUpTo(MaxRetryChain)
    \/ \E call \in calls : RetrySettle(call)

SpecRetryChain == Init /\ [][NextRetryChain]_vars

\* Successive batches over changing scene texts, with retry_item.
NextContext ==
    \/ handleGenerate(ValidPrompts, {PhotoOne}, {2}, MaxBatches)
    \/ \E b \in 1..Len(batches) : OptimizeResolve(b)
    \/ \E b \in 1..Len(batches) : AssembleResolve(b)
    \/ \E call \in calls : GenerateSettle(call)
    \/ handleRetryImage
    \/ \E call \in calls : RetrySettle(call)

SpecContext == Init /\ [][NextContext]_vars

\* One batch whose generate calls fail in every way the remote call can.
NextFailures ==
    \/ handleGenerate({"a"}, {PhotoOne}, {2}, MaxWideBatches)
    \/ \E b \in 1..Len(batches) : OptimizeResolve(b)
    \/ \E b \in 1..Len(batches) : AssembleResolve(b)
    \/ \E call \in calls, outcome \in {"ok"} \cup RawFailures :
          GenerateSettleWith(call, outcome)

SpecFailures == Init /\ [][NextFailures]_vars

\* The credential, the gateway and the analysis of uploaded photos, from a
\* page load in any environment.
NextSession ==
    \/ checkKey
    \/ setManualApiKey
    \/ handleSaveManualKey
    \/ handleClearApiKey
    \/ handleSelectKey
    \/ Reload
    \/ handleFilesChange
    \/ \E u \in 1..Len(uploads) : ResizeResolve(u)
    \/ \E u \in 1..Len(uploads) : AnalyzeResolve(u)
    \/ optimizePrompt
    \/ generatePortrait
    \/ Answered

SpecSession == InitSession /\ [][NextSession]_vars

\* Successive batches over the same scene text while the subject data change.
NextSubjects ==
    \/ handleGenerate({"a"}, {PhotoOne, PhotoTwo}, {2}, MaxBatches)
    \/ handleCancel
    \/ \E b \in 1..Len(batches) : OptimizeResolve(b)
    \/ \E b \in 1..Len(batches) : AssembleResolve(b)
    \/ \E call \in calls : GenerateSettle(call)

SpecSubjects == Init /\ [][NextSubjects]_vars

\* One batch for subject data of every shape, run through prompt assembly.
NextAssembly ==
    \/ handleGenerate({"a"}, PhotoLayouts, {2}, MaxWideBatches)
    \/ \E b \in 1..Len(batches) : OptimizeResolve(b)
    \/ \E b \in 1..Len(batches) : AssembleResolve(b)
    \/ \E call \in calls : GenerateSettle(call)

SpecAssembly == Init /\ [][NextAssembly]_vars

\* One upload, with the photos and the subjects edited by hand while the
\* analysis runs.
NextPhotos ==
    \/ handleFilesChange
    \/ \E u \in 1..Len(uploads) : ResizeResolve(u)
    \/ \E u \in 1..Len(uploads) : AnalyzeResolve(u)
    \/ removePhoto
    \/ addCharacterToPhoto
    \/ removeCharacterFromPhoto

SpecPhotos == Init /\ [][NextPhotos]_vars

\* One upload and one batch with its retries: every kind of gateway call the
\* application makes, with cancel_batch at any moment.
NextLedger ==
    \/ handleFilesChange
    \/ \E u \in 1..Len(uploads) : ResizeResolve(u)
    \/ \E u \in 1..Len(uploads) : AnalyzeResolve(u)
    \/ handleGenerate({"a"}, {PhotoOne}, {2}, MaxLedgerBatches)
    \/ handleCancel
    \/ \E b \in 1..Len(batches) : OptimizeResolve(b)
    \/ \E b \in 1..Len(batches) : AssembleResolve(b)
    \/ \E call \in calls : GenerateSettle(call)
    \/ handleRetryImage
    \/ \E call \in calls : RetrySettle(call)

SpecLedger == Init /\ [][NextLedger]_vars

\* The system of Spec when every remote call returns: a rewrite, an assembly
\* or a generate call that is in flight is answered sooner or later.
CallsReturn ==
    /\ \A b \in 1..MaxBatches : WF_vars(b <= Len(batches) /\ OptimizeResolve(b))
    /\ \A b \in 1..MaxBatches : WF_vars(b <= Len(batches) /\ AssembleResolve(b))
    /\ WF_vars(\E call \in calls : GenerateSettle(call))
    /\ WF_vars(\E call \in calls : RetrySettle(call))

SpecReturning == Init /\ [][Next]_vars /\ CallsReturn

\* The system of Spec, with cancel_batch also invoked while no batch is active.
NextIdleCancel ==
    \/ Next
    \/ handleCancelIdle

SpecIdleCancel == Init /\ [][NextIdleCancel]_vars

\* ================================================================ claims
\* a step that starts a batch (a handleGenerate that passed validation)
StartsBatch == Len(batches') = Len(batches) + 1

Latest(bs) == bs[Len(bs)]

\* the invocation issued a rewrite call (it did not reuse the cache)
IssuedOptimize(batch) == batch.optimize # "hit"

\* C2: a start_batch that passes validation publishes exactly variation_count
\* items, variation_count being 2, 4 or 8, all pending and with pairwise
\* distinct identifiers, in the same step, when no remote call of the batch
\* has resolved (the rewrite call is at most in flight, no generate call has
\* been issued).
C2_PublishesPlaceholders ==
    [][ StartsBatch =>
          LET new == Latest(batches')
              b   == Len(batches')
          IN  /\ new.numImages \in Variations
              /\ Len(generationResults') = new.numImages
              /\ \A k \in 1..Len(generationResults') :
                    generationResults'[k].status = "pending"
              /\ \A k, m \in 1..Len(generationResults') :
                    k # m => generationResults'[k].id # generationResults'[m].id
              /\ new.optimize \in {"hit", "inflight"}
              /\ new.pc \in {"optimizing", "assembling"}
              /\ InitialCalls(calls', b) = {} ]_vars

\* C2 witness: a batch of 8 has just been published, its rewrite call in flight
C2_Witness ==
    /\ Len(batches) = 1
    /\ batches[1].numImages = 8
    /\ batches[1].pc = "optimizing"
    /\ Len(generationResults) = 8
    /\ \A k \in 1..8 : generationResults[k].status = "pending"

\* C3 (as claimed): two consecutive start_batch invocations with the same
\* scene text and the same subjects issue the rewrite call at most once in
\* total, whatever happened to the first one.
C3_AtMostOneRewrite ==
    [][ (/\ StartsBatch
         /\ Len(batches) >= 1
         /\ Latest(batches').scenePrompt = Latest(batches).scenePrompt
         /\ Latest(batches').photos = Latest(batches).photos)
        => ~(IssuedOptimize(Latest(batches)) /\ IssuedOptimize(Latest(batches'))) ]_vars

\* the invocation left the cache holding a rewrite of its own scene text: it
\* reused the cache, or its rewrite call returned a non-empty text while the
\* batch was not cancelled
LeftRewriteCached(batch) ==
    \/ batch.optimize = "hit"
    \/ batch.optimize = "stored" /\ batch.optimizedPrompt # ""

\* C3 (amended): two consecutive start_batch invocations with the same scene
\* text issue the rewrite call at most once in total provided the first one
\* reused the cache or had its rewrite call return a non-empty text while
\* not cancelled; then the second one reuses the cache.
C3_AtMostOneRewriteIfCached ==
    [][ (/\ StartsBatch
         /\ Len(batches) >= 1
         /\ Latest(batches').scenePrompt = Latest(batches).scenePrompt
         /\ LeftRewriteCached(Latest(batches)))
        => /\ ~IssuedOptimize(Latest(batches'))
           /\ Latest(batches').optimizedPrompt = Latest(batches).optimizedPrompt ]_vars

\* C3 witness: the second of two batches with the same text reused the
\* rewrite the first one's call had stored
C3_Witness ==
    /\ Len(batches) = 2
    /\ batches[1].optimize = "stored"
    /\ batches[2].optimize = "hit"
    /\ batches[2].scenePrompt = batches[1].scenePrompt
    /\ batches[2].photos = batches[1].photos

\* C4 (as claimed): a batch whose scene text differs from the text of the
\* batch before it issues a fresh rewrite call, after any history.
C4_FreshRewriteOnChange ==
    [][ (/\ StartsBatch
         /\ Len(batches) >= 1
         /\ Latest(batches').scenePrompt # Latest(batches).scenePrompt)
        => IssuedOptimize(Latest(batches')) ]_vars

\* the invocation left the cache keyed by its own scene text: it reused the
\* cache, or its rewrite call returned while the batch was not cancelled
LeftCacheKeyed(batch) == batch.optimize \in {"hit", "stored"}

\* C4 (amended): a batch whose scene text differs from the text of the batch
\* before it issues a fresh rewrite call, provided the rewrite step of the
\* batch before it completed (cache reuse, or a rewrite call that returned
\* while the batch was not cancelled).
C4_FreshRewriteOnChangeIfKeyed ==
    [][ (/\ StartsBatch
         /\ Len(batches) >= 1
         /\ LeftCacheKeyed(Latest(batches))
         /\ Latest(batches').scenePrompt # Latest(batches).scenePrompt)
        => Latest(batches').optimize = "inflight" ]_vars

\* C4 witness: a third batch returns to the first text after a second batch
\* with another text has stored its rewrite, and issues a rewrite call
C4_Witness ==
    /\ Len(batches) = 3
    /\ batches[2].optimize = "stored"
    /\ batches[3].scenePrompt # batches[2].scenePrompt
    /\ batches[3].optimize = "inflight"

\* position k holds the same item before and after the step
SameItem(k) ==
    /\ k <= Len(generationResults')
    /\ generationResults'[k].id = generationResults[k].id

\* C1 (as claimed): cancel_batch moves every pending item to cancelled, and
\* no later event (the return of its initial generate call, or of a retry
\* call in flight for it at the cancel) changes a cancelled item to success
\* or error.
C1_CancelIsFinal ==
    [][ /\ handleCancel =>
             \A k \in 1..Len(generationResults) :
                generationResults[k].status = "pending"
                    => generationResults'[k].status = "cancelled"
        /\ \A k \in 1..Len(generationResults) :
              (SameItem(k) /\ generationResults[k].status = "cancelled")
                  => generationResults'[k].status \notin {"success", "error"} ]_vars

\* the status changes of the item lifecycle
Lifecycle ==
    { <<"pending", "success">>, <<"pending", "error">>,
      <<"pending", "cancelled">>, <<"error", "pending">> }

\* C5 (as claimed): an item only ever takes the transitions pending->success,
\* pending->error, pending->cancelled and error->pending; no item leaves
\* cancelled, no item leaves success.
C5_LifecycleOnly ==
    [][ \A k \in 1..Len(generationResults) :
           (SameItem(k) /\ generationResults'[k].status # generationResults[k].status)
               => <<generationResults[k].status, generationResults'[k].status>>
                      \in Lifecycle ]_vars

\* the result of the call can still be written to its item as success or error
Applicable(call) == call.src = "retry" \/ ~IsAborted(call.signal)

\* C6 (as claimed): every item has at most one outstanding generate call
\* whose result can still be applied to it.
C6_OneCallPerItem ==
    \A c, d \in calls :
        (c.id = d.id /\ Applicable(c) /\ Applicable(d)) => c = d

\* the calls in flight that retry operation r issued
CallsOf(r) == {c \in calls : c.src = "retry" /\ c.op = r}

\* C7: a retry_all_failed has at most one retry call in flight at any time,
\* and the failed results it has not yet come to are exactly those that follow
\* the one in flight: the call for the next failed item is issued only once
\* the call for the one before it has settled.
C7_RetryAllSequential ==
    \A r \in 1..Len(retryOps) :
        retryOps[r].kind = "all" =>
            /\ Cardinality(CallsOf(r)) = 1
            /\ \A c \in CallsOf(r), k \in 1..Len(retryOps[r].queue) :
                  /\ retryOps[r].queue[k].id # c.id
                  /\ retryOps[r].queue[k].id[2] > c.id[2]

\* C7 witness: a retry_all_failed over two failed items has settled the first
\* and has the second one's call in flight
C7_Witness ==
    \E r \in 1..Len(retryOps) :
        /\ retryOps[r].kind = "all"
        /\ retryOps[r].queue = <<>>
        /\ \E c \in CallsOf(r) :
              /\ c.id[2] = 2
              /\ \E k \in 1..Len(generationResults) :
                    /\ generationResults[k].id = <<c.id[1], 1>>
                    /\ generationResults[k].retryCount = 1
                    /\ generationResults[k].status \in {"success", "error"}

\* batch b was cancelled while its rewrite call was in flight
CancelledInOptimize(b) ==
    /\ batches[b].aborted
    /\ batches[b].optimize \in {"inflight", "discarded", "failed"}

\* C8: once a batch is cancelled while its rewrite call is in flight, all its
\* items are cancelled and stay so (none is marked error), and no generate
\* call is issued for it, whether the rewrite call then succeeds or fails.
C8_CancelDuringOptimize ==
    \A b \in 1..Len(batches) :
        CancelledInOptimize(b) =>
            /\ InitialCalls(calls, b) = {}
            /\ batches[b].pc \in {"optimizing", "done"}
            /\ \A k \in 1..Len(generationResults) :
                  generationResults[k].id[1] = b
                      => generationResults[k].status = "cancelled"

\* C8 witness: the rewrite call of a batch cancelled in its rewrite step has
\* failed, and the items of the batch are on display, cancelled
C8_Witness ==
    /\ Len(batches) = 1
    /\ batches[1].aborted
    /\ batches[1].optimize = "failed"
    /\ Len(generationResults) = 2
    /\ \A k \in 1..2 : generationResults[k].status = "cancelled"

\* a callback of batch b: the return of its rewrite call, of its prompt
\* assembly, or of one of its generate calls
BatchCallback(b) ==
    \/ OptimizeResolve(b)
    \/ AssembleResolve(b)
    \/ \E c \in InitialCalls(calls, b) : GenerateSettle(c)

\* the return of a retry call for an item of a batch older than the latest
OlderRetryCallback ==
    \E c \in RetryCalls(calls) : c.id[1] < Len(batches) /\ RetrySettle(c)

\* C9: no callback that belongs to a batch started before the latest one
\* changes the items of the latest batch.
C9_NoStaleWrites ==
    [][ ((\E b \in 1..(Len(batches) - 1) : BatchCallback(b)) \/ OlderRetryCallback)
            => UNCHANGED generationResults ]_vars

\* C9 witness: with a second batch under way and an item of it done, one
\* generate call of the cancelled first batch has returned, one is in flight
C9_Witness ==
    /\ Len(batches) = 2
    /\ batches[1].aborted
    /\ Cardinality(InitialCalls(calls, 1)) = 1
    /\ batches[2].pc = "generating"
    /\ \E k \in 1..Len(generationResults) :
          /\ generationResults[k].id[1] = 2
          /\ generationResults[k].status = "success"
    /\ \E k \in 1..Len(generationResults) :
          generationResults[k].status = "pending"

\* C10 (as claimed): while a newer batch exists, every call still in flight
\* for an older batch has been cancelled: its token has fired.
C10_OlderCallsCancelled ==
    \A b \in 1..(Len(batches) - 1) :
        /\ batches[b].pc = "optimizing" => batches[b].aborted
        /\ \A c \in calls :
              c.id[1] = b => (c.signal # 0 /\ IsAborted(c.signal))

\* C11: while a batch that has not been cancelled still has its rewrite call,
\* its prompt assembly or any of its initial generate calls outstanding, the
\* batch-busy flag is true.
C11_BusyUntilAllSettled ==
    \A b \in 1..Len(batches) :
        (/\ ~batches[b].aborted
         /\ \/ batches[b].pc \in {"optimizing", "assembling"}
            \/ InitialCalls(calls, b) # {})
            => isGenerating

\* C11 witness: one of the two generate calls of a running batch has settled,
\* the other is in flight, and the flag is still up
C11_Witness ==
    /\ Len(batches) = 1
    /\ ~batches[1].aborted
    /\ Cardinality(InitialCalls(calls, 1)) = 1
    /\ \E k \in 1..Len(generationResults) :
          generationResults[k].status \in {"success", "error"}
    /\ isGenerating

\* C12: when an initial generate call of a batch that is not cancelled
\* settles, with an image or with a failure, only its own item changes: the
\* item becomes success on an image and error on a failure (isQuotaError true
\* exactly for a quota failure), every sibling item keeps its status and
\* result, and every sibling call stays in flight.
C12_FailuresIsolated ==
    [][ \A call \in calls, outcome \in GenerateOutcomes :
           (/\ call.src = "initial"
            /\ ~IsAborted(call.signal)
            /\ GenerateSettleWith(call, outcome))
               => /\ Len(generationResults') = Len(generationResults)
                  /\ \A k \in 1..Len(generationResults) :
                        IF generationResults[k].id = call.id
                        THEN IF outcome = "ok"
                             THEN generationResults'[k].status = "success"
                             ELSE /\ generationResults'[k].status = "error"
                                  /\ generationResults'[k].isQuotaError
                                         = (outcome = QuotaMessage)
                        ELSE generationResults'[k] = generationResults[k]
                  /\ \A c \in calls \ {call} : c \in calls' ]_vars

\* C12 witness: of the two items of a finished batch the first failed on
\* quota and the second succeeded
C12_Witness ==
    /\ Len(batches) = 1
    /\ batches[1].pc = "done"
    /\ ~batches[1].aborted
    /\ retryOps = <<>>
    /\ Len(generationResults) = 2
    /\ generationResults[1].status = "error"
    /\ generationResults[1].isQuotaError
    /\ generationResults[2].status = "success"
    /\ generationResults[2].imageUrl # ""

\* the items of batch b on display all have status success and an image
AllSucceeded(results, b) ==
    \A k \in 1..Len(results) :
        results[k].id[1] = b
            => (results[k].status = "success" /\ results[k].imageUrl # "")

\* C13: in a batch that is not cancelled, a generate call that returns an
\* image leaves its item success with a non-empty result; when it is the last
\* call of the batch and all the others succeeded too, every item of the
\* batch is success with a non-empty result and the batch-busy flag is false.
C13_AllSucceed ==
    [][ \A call \in calls :
           (/\ call.src = "initial"
            /\ ~IsAborted(call.signal)
            /\ GenerateSettleWith(call, "ok"))
               => /\ \E k \in 1..Len(generationResults') :
                        /\ generationResults'[k].id = call.id
                        /\ generationResults'[k].status = "success"
                        /\ generationResults'[k].imageUrl # ""
                  /\ (/\ calls' = {}
                      /\ \A k \in 1..Len(generationResults) :
                            generationResults[k].id # call.id
                                => generationResults[k].status = "success")
                         => (AllSucceeded(generationResults', call.op)
                             /\ ~isGenerating') ]_vars

\* C13 witness: a batch has run to its end without cancellation, both items
\* are success with an image and the flag is down
C13_Witness ==
    /\ Len(batches) = 1
    /\ batches[1].pc = "done"
    /\ ~batches[1].aborted
    /\ retryOps = <<>>
    /\ Len(generationResults) = 2
    /\ AllSucceeded(generationResults, 1)
    /\ calls = {}
    /\ ~isGenerating

\* C14: handleGenerate run with no subjects, or with an empty or
\* whitespace-only scene text, only reports its validation error (the one
\* for the subjects first): it creates no items, issues no call, and leaves
\* the busy flag, the item list, the optimization cache and the retained
\* generation context as they were.
C14_ValidationOnly ==
    [][ \A scenePrompt \in ScenePrompts, photos \in {PhotoNone, PhotoOne} :
           (/\ (allCharacters(photos) = <<>> \/ scenePrompt \in {"", " "})
            /\ handleGenerate({scenePrompt}, {photos}, {2}, MaxBatches))
               => /\ globalError' =
                        IF allCharacters(photos) = <<>>
                        THEN "Please upload at least one photo and define a character."
                        ELSE "Describe the scene first."
                  /\ UNCHANGED << generationResults, isGenerating,
                                  isPromptOptimizing, abortControllerRef,
                                  cacheVars, lastGeneratedPayloadRef,
                                  batches, retryOps, calls >> ]_vars

\* C14 witness: the missing-subjects error is on display over the items, the
\* cache and the generation context of an earlier batch
C14_Witness ==
    /\ globalError = "Please upload at least one photo and define a character."
    /\ Len(generationResults) = 2
    /\ cachedOptimizedPromptRef # ""
    /\ lastGeneratedPayloadRef # <<>>
    /\ ~isGenerating

\* C15: the retry call of an item that had been retried n times before
\* carries mitigation index n + 1 for n < 4 and index 5 for every n >= 4: the
\* index is never 0 and never beyond the last of the 6 entries.
C15_MitigationIndex ==
    \A c \in RetryCalls(calls) :
        /\ c.prompt.mitigation \in 1..5
        /\ \A k \in 1..Len(generationResults) :
              generationResults[k].id = c.id =>
                  LET n == generationResults[k].retryCount - 1
                  IN  /\ n >= 0
                      /\ n < 4 => c.prompt.mitigation = n + 1
                      /\ n >= 4 => c.prompt.mitigation = 5

\* C15 witness: an item retried six times before is being retried again,
\* with the last mitigation entry
C15_Witness ==
    \E c \in RetryCalls(calls) :
        /\ c.prompt.mitigation = 5
        /\ \E k \in 1..Len(generationResults) :
              /\ generationResults[k].id = c.id
              /\ generationResults[k].retryCount = 7

\* C16 (as claimed): a retry call issued for an item shown in error goes to
\* the alternate model exactly when the isQuotaError flag the item carries
\* from its most recent failure is true, and to the default model otherwise.
C16_ModelFollowsQuotaFlag ==
    [][ \A c \in calls' \ calls :
           c.src = "retry" =>
               \A k \in 1..Len(generationResults') :
                   (/\ generationResults'[k].id = c.id
                    /\ SameItem(k)
                    /\ generationResults[k].status = "error")
                       => c.model = IF generationResults[k].isQuotaError
                                    THEN FlashModel ELSE DefaultModel ]_vars

\* C17: a retry invoked while no generation context is retained only
\* reports its error: no call is issued and every item keeps its status, its
\* error message, its quota flag and its retry counter.
C17_RetryNeedsContext ==
    [][ (/\ lastGeneratedPayloadRef = <<>>
         /\ (handleRetryImage \/ handleRetryAllFailed))
            => /\ globalError' = RetryContextMissing
               /\ UNCHANGED << generationResults, calls, retryOps,
                               lastGeneratedPayloadRef, isGenerating >> ]_vars

\* C17 witness: the retry error is on display, over failed items, with no
\* context retained and no call in flight
C17_Witness ==
    /\ globalError = RetryContextMissing
    /\ lastGeneratedPayloadRef = <<>>
    /\ calls = {}
    /\ Len(generationResults) = 2
    /\ \A k \in 1..2 : /\ generationResults[k].status = "error"
                       /\ generationResults[k].retryCount = 0

\* C18 (as claimed): a retry call for an item of the most recent batch
\* carries the generation context that this batch assembled: the batch got as
\* far as its fan-out, and the reference images and final prompt of the call
\* are the ones built from the batch's subjects and rewritten text.
C18_RetryUsesOwnContext ==
    \A c \in RetryCalls(calls) :
        c.id[1] = Len(batches) =>
            LET batch == batches[c.id[1]]
                own   == constructPromptPayload(batch.photos,
                                                batch.optimizedPrompt)
            IN  /\ batch.pc \in {"generating", "done"}
                /\ c.imageParts = own.imageParts
                /\ c.prompt.fullPrompt = own.fullPrompt

\* C19: when the rewrite call of a batch that has not been cancelled fails,
\* every item on display is marked error, no generate call of the batch is
\* issued, a batch-level error is reported, and the busy flag is cleared.
C19_OptimizeFailureAborts ==
    [][ \A b \in 1..Len(batches) :
           (/\ batches[b].optimize = "inflight"
            /\ ~batches[b].aborted
            /\ Len(batches') = Len(batches)
            /\ batches'[b].optimize = "failed")
               => /\ Len(generationResults') = batches[b].numImages
                  /\ \A k \in 1..Len(generationResults') :
                        /\ generationResults'[k].id[1] = b
                        /\ generationResults'[k].status = "error"
                  /\ InitialCalls(calls', b) = {}
                  /\ batches'[b].pc = "done"
                  /\ globalError' = OptimizeErrorMessage
                  /\ ~isGenerating'
                  /\ ~isPromptOptimizing' ]_vars

\* C19 witness: the rewrite call of the first batch has failed: both items
\* are in error and the batch-level error is on display
C19_Witness ==
    /\ Len(batches) = 1
    /\ batches[1].optimize = "failed"
    /\ ~batches[1].aborted
    /\ globalError = OptimizeErrorMessage
    /\ Len(generationResults) = 2
    /\ \A k \in 1..2 : generationResults[k].status = "error"
    /\ calls = {}
    /\ ~isGenerating

\* C20 (as claimed): handleCancel invoked while no batch is active changes
\* nothing: no item's status, no flag, no cached state; and after any
\* handleCancel a second one right away would change nothing.
C20_IdleCancelIsNoOp ==
    [][ /\ handleCancelIdle => UNCHANGED vars
        /\ (handleCancel \/ handleCancelIdle)
              => /\ CancelPending(generationResults') = generationResults'
                 /\ ~isGenerating'
                 /\ ~isPromptOptimizing'
                 /\ abortControllerRef' = 0 ]_vars

\* C21: whatever returns for a batch whose cancellation token has fired (its
\* rewrite call, its prompt assembly, one of its generate calls, with a result
\* or with a failure), no item is marked error, no item's error message
\* changes, no batch-level error is reported, and the item of a generate call
\* that returns is cancelled.
C21_CancelledNotFailed ==
    [][ \A b \in 1..Len(batches) :
           (batches[b].aborted /\ BatchCallback(b))
               => /\ globalError' = globalError
                  /\ Len(generationResults') = Len(generationResults)
                  /\ \A k \in 1..Len(generationResults) :
                        /\ generationResults'[k].errorMessage
                               = generationResults[k].errorMessage
                        /\ generationResults'[k].status = "error"
                               => generationResults[k].status = "error"
                  /\ \A c \in InitialCalls(calls, b) \ calls' :
                        \A k \in 1..Len(generationResults') :
                            generationResults'[k].id = c.id
                                => generationResults'[k].status = "cancelled" ]_vars

\* C21 witness: both generate calls of a batch cancelled during its fan-out
\* have returned, and both items are cancelled with no error message
C21_Witness ==
    /\ Len(batches) = 1
    /\ batches[1].aborted
    /\ batches[1].pc = "done"
    /\ lastGeneratedPayloadRef # <<>>
    /\ calls = {}
    /\ Len(generationResults) = 2
    /\ \A k \in 1..2 : /\ generationResults[k].status = "cancelled"
                       /\ generationResults[k].errorMessage = ""

\* the raw failures that are a quota exhaustion
QuotaFailures == {RawQuota}

\* C22 (as claimed): the item of a generate call that fails is flagged
\* isQuotaError exactly when the failure was a quota exhaustion; a failure of
\* any other kind leaves the flag false.
C22_QuotaFlagExact ==
    [][ \A call \in calls, failure \in RawFailures :
           (/\ call.src = "initial"
            /\ ~IsAborted(call.signal)
            /\ GenerateSettleWith(call, failure))
               => \A k \in 1..Len(generationResults') :
                     generationResults'[k].id = call.id
                         => /\ generationResults'[k].status = "error"
                            /\ generationResults'[k].isQuotaError
                                   = (failure \in QuotaFailures) ]_vars

\* C23: while a batch is displayed no item is destroyed: the ordered list of
\* item ids is changed by no operation other than the start of a new batch.
C23_IdsOnlyChangeAtStart ==
    [][ Ids(generationResults') # Ids(generationResults) => StartsBatch ]_vars

\* the list of the first batch after a failure, a retry, a cancel and the
\* retry's success: both items are still there, in order
C23_Witness ==
    /\ Len(batches) = 1
    /\ batches[1].aborted
    /\ Ids(generationResults) = << <<1, 1>>, <<1, 2>> >>
    /\ generationResults[1].status = "success"
    /\ generationResults[1].retryCount = 1
    /\ generationResults[2].status = "cancelled"

\* C27: cancel_batch changes only pending items, which become cancelled with
\* their other fields kept; a success or error item keeps its status, result
\* and error fields; and the busy flag is false right after the cancel, with
\* the calls in flight still in flight.
C27_CancelTouchesPendingOnly ==
    [][ handleCancel
           => /\ Len(generationResults') = Len(generationResults)
              /\ \A k \in 1..Len(generationResults) :
                    generationResults'[k] =
                        IF generationResults[k].status = "pending"
                        THEN [generationResults[k] EXCEPT !.status = "cancelled"]
                        ELSE generationResults[k]
              /\ ~isGenerating'
              /\ calls' = calls ]_vars

\* right after a cancel: the first item had succeeded and is kept, the second
\* is cancelled while its generate call is still in flight, and the batch is
\* no longer busy
C27_Witness ==
    /\ Len(batches) = 1
    /\ batches[1].aborted
    /\ ~isGenerating
    /\ InitialCalls(calls, 1) # {}
    /\ generationResults[1].status = "success"
    /\ generationResults[1].imageUrl # ""
    /\ generationResults[2].status = "cancelled"

\* C28 (as claimed): a retry's generate call is issued only for an item of
\* the current batch whose status is error when the call is issued; never for
\* a pending, success or cancelled item, nor for an item that is no longer in
\* the list.
C28_RetryOnlyForError ==
    [][ \A c \in calls' \ calls :
           c.src = "retry"
               => \E k \in 1..Len(generationResults) :
                     /\ generationResults[k].id = c.id
                     /\ generationResults[k].status = "error" ]_vars

\* C29 (as claimed): once an item of the displayed batch is success, no later
\* retry_item, retry_all_failed or cancel_batch step changes its status or its
\* result; only the start of a new batch replaces it.
C29_SuccessIsStable ==
    [][ \A k \in 1..Len(generationResults) :
           (SameItem(k) /\ generationResults[k].status = "success")
               => /\ generationResults'[k].status = "success"
                  /\ generationResults'[k].imageUrl = generationResults[k].imageUrl
       ]_vars

\* C30 (as claimed): a retry_item with a generation context sets its item to
\* pending, increases the item's retry counter by exactly one, clears its
\* error message and quota flag and issues exactly one generate call; when
\* that call settles the item is success with the returned image, or error
\* with the normalized message and the quota flag of that message.
C30_RetryItemEffect ==
    [][ /\ Cardinality({c \in calls' \ calls : c.src = "retry"}) <= 1
        /\ \A c \in calls' \ calls :
              c.src = "retry"
                  => \A k \in 1..Len(generationResults) :
                        generationResults[k].id = c.id
                            => generationResults'[k] =
                                  [generationResults[k] EXCEPT
                                      !.status = "pending",
                                      !.errorMessage = "",
                                      !.isQuotaError = FALSE,
                                      !.retryCount = @ + 1]
        /\ \A c \in calls \ calls' :
              (c.src = "retry" /\ ~StartsBatch)
                  => \A k \in 1..Len(generationResults) :
                        (generationResults[k].id = c.id /\ c \notin calls')
                            => \/ /\ generationResults'[k].status = "success"
                                  /\ generationResults'[k].imageUrl = ImageFrom(c.model)
                               \/ /\ generationResults'[k].status = "error"
                                  /\ generationResults'[k].errorMessage \in
                                         {cleanError(f) : f \in RawFailures}
                                  /\ generationResults'[k].isQuotaError =
                                         IsQuotaMessage(generationResults'[k].errorMessage)
                               \/ \E d \in calls' \ calls : d.id = c.id
       ]_vars

\* the photo got the stand-in subject of a failed analysis and nothing was
\* reported
FellBack(photo) ==
    /\ globalError' = globalError
    /\ hasApiKey' = hasApiKey
    /\ \A k \in 1..Len(uploadedPhotos') :
          uploadedPhotos'[k].id = photo
              => /\ Len(uploadedPhotos'[k].characters) = 1
                 /\ uploadedPhotos'[k].characters[1].description = "AI analysis failed."
                 /\ ~uploadedPhotos'[k].characters[1].isDescriptionLoading

\* the failure reached handleFilesChange, which reported it
Raised(photo, shown) ==
    /\ globalError' = shown
    /\ \A k \in 1..Len(uploadedPhotos') :
          uploadedPhotos'[k].id = photo
              => uploadedPhotos'[k].characters = <<ErrorCharacter(photo)>>

\* C24 (as claimed): an analysis that fails for a reason other than quota is
\* not propagated: the photo gets exactly one generic stand-in subject and
\* no error is raised; only a quota failure propagates.
C24_OnlyQuotaPropagates ==
    [][ \A u \in 1..Len(uploads) :
           /\ \A f \in AnalyzeFailures :
                 AnalyzeResolveWith(u, f)
                     => IF f \in QuotaFailures
                        THEN Raised(uploads[u].photo, QuotaMessage)
                        ELSE FellBack(uploads[u].photo)
           /\ (ResizeResolveWith(u, TRUE) /\ dynamicApiKey = "")
                 => FellBack(uploads[u].photo) ]_vars

\* C24 (amended): an analysis request that fails with an error whose text
\* does not hold '429' is not propagated: the photo gets exactly one generic
\* stand-in subject and no error is raised.  A failure whose text holds
\* '429' propagates as the quota error, and a missing credential, found
\* before the request is issued, propagates too: both are reported and the
\* photo gets the single 'Error' subject.
C24_FallbackUnless429OrNoKey ==
    [][ \A u \in 1..Len(uploads) :
           /\ \A f \in AnalyzeFailures :
                 AnalyzeResolveWith(u, f)
                     => IF "429" \in Mentions(f)
                        THEN Raised(uploads[u].photo, QuotaMessage)
                        ELSE FellBack(uploads[u].photo)
           /\ (ResizeResolveWith(u, TRUE) /\ dynamicApiKey = "")
                 => /\ Raised(uploads[u].photo, SessionExpiredMessage)
                    /\ ~hasApiKey'
                    /\ requests' = requests ]_vars

\* two photos analysed: the first failed with an overload and has the
\* stand-in subject, the second failed with a quota error, which is shown
C24_Witness ==
    /\ Len(uploadedPhotos) = 2
    /\ Len(uploadedPhotos[1].characters) = 1
    /\ uploadedPhotos[1].characters[1].description = "AI analysis failed."
    /\ uploadedPhotos[2].characters = <<ErrorCharacter(2)>>
    /\ globalError = QuotaMessage
    /\ uploads[1].pc = "done"

\* C25 (as claimed): the startup takes the credential from the first source
\* that has one, in the order stored value, value of the build, host; a
\* stored value wins over a value of the build; and a key entered by hand is
\* stored, a page load keeping what is stored.
C25_KeyFromFirstSource ==
    [][ /\ checkKey
           => /\ ~isCheckingKey'
              /\ localStorageKey # ""
                    => /\ hasApiKey' /\ apiKeySource' = "storage"
                       /\ dynamicApiKey' = localStorageKey
              /\ (localStorageKey = "" /\ envApiKey # "")
                    => /\ hasApiKey' /\ apiKeySource' \in {"env", "studio"}
                       /\ dynamicApiKey' = envApiKey
              /\ (localStorageKey = "" /\ envApiKey = "" /\ aistudio = "selected")
                    => /\ hasApiKey' /\ apiKeySource' = "studio"
                       /\ dynamicApiKey' # ""
              /\ (localStorageKey = "" /\ envApiKey = "" /\ aistudio # "selected")
                    => ~hasApiKey'
        /\ handleSaveManualKey
           => /\ localStorageKey' # ""
              /\ localStorageKey' = Trim(manualApiKey)
              /\ dynamicApiKey' = localStorageKey'
        /\ Reload => localStorageKey' = localStorageKey ]_vars

\* C26: clearing the credential removes the stored value and empties the key
\* in memory; while that key is empty every gateway operation (analyze,
\* rewrite, generate) throws the missing-credential error and issues no
\* request; and the key becomes non-empty again only by saving a key or by a
\* page load.
C26_NoKeyNoRequest ==
    [][ /\ handleClearApiKey => (localStorageKey' = "" /\ dynamicApiKey' = "")
        /\ dynamicApiKey = ""
           => /\ requests' \subseteq requests
              /\ optimizePrompt => thrown'["rewrite"] = MissingKeyMessage
              /\ generatePortrait => thrown'["generate"] = MissingKeyMessage
              /\ \A u \in 1..Len(uploads) :
                    ResizeResolveWith(u, TRUE)
                        => thrown'["analyze"] = MissingKeyMessage
        /\ (dynamicApiKey = "" /\ dynamicApiKey' # "")
           => (handleSaveManualKey \/ Reload \/ checkKey) ]_vars

\* the key was cleared in a build that has a key of its own, and since then
\* each of the three operations was called and threw
C26_Witness ==
    /\ envApiKey # ""
    /\ localStorageKey = ""
    /\ dynamicApiKey = ""
    /\ ~hasApiKey
    /\ requests = {}
    /\ \A op \in GatewayOps : thrown[op] = MissingKeyMessage

\* C31: the optimization cache is one slot whose parts agree: the cached
\* text is what the rewrite call returned for the cached scene text.  The
\* slot is written only when a rewrite call returns a text for a batch that
\* has not been cancelled; a rewrite that fails or whose batch was cancelled
\* leaves the slot as it was.
C31_CacheSlotConsistent ==
    [][ /\ cachedOptimizedPromptRef' \in {"", Rewrite(lastUsedScenePromptRef')}
        /\ lastUsedScenePromptRef' = "" => cachedOptimizedPromptRef' = ""
        /\ cacheVars' # cacheVars
              => \E b \in 1..Len(batches) :
                    /\ batches[b].pc = "optimizing"
                    /\ ~batches[b].aborted
                    /\ batches'[b].pc = "assembling"
                    /\ lastUsedScenePromptRef' = batches[b].scenePrompt
                    /\ cachedOptimizedPromptRef' = batches'[b].optimizedPrompt
        /\ \A b \in 1..Len(batches) :
              (batches[b].pc = "optimizing" /\ batches'[b].pc = "done")
                  => cacheVars' = cacheVars ]_vars

\* the rewrite for "b" came back after its batch was cancelled: the slot
\* still holds the entry for "a"
C31_Witness ==
    /\ Len(batches) = 2
    /\ batches[2].scenePrompt = "b"
    /\ batches[2].aborted
    /\ batches[2].optimize = "discarded"
    /\ lastUsedScenePromptRef = "a"
    /\ cachedOptimizedPromptRef = "brief-a"

\* C32: within a batch no generate call is issued before the batch's
\* optimized text is resolved (by a cache hit or a rewrite call that returned)
\* and the prompt is assembled from it; and the generate calls of the fan-out
\* all carry the reference images and the final prompt that are retained for
\* retry at that moment.
C32_FanOutAfterAssembly ==
    [][ \A c \in calls' \ calls :
           c.src = "initial"
               => /\ batches[c.op].pc = "assembling"
                  /\ batches[c.op].optimize \in {"hit", "stored"}
                  /\ lastGeneratedPayloadRef' # <<>>
                  /\ c.imageParts = lastGeneratedPayloadRef'[1].imageParts
                  /\ c.prompt.fullPrompt = lastGeneratedPayloadRef'[1].fullPrompt
                  /\ c.prompt.fullPrompt.scene = batches[c.op].optimizedPrompt
                  /\ c.prompt.mitigation = 0 ]_vars

\* the fan-out of a second batch whose text came from the cache: both calls
\* in flight, with the retained pair
C32_Witness ==
    /\ Len(batches) = 2
    /\ batches[2].optimize = "hit"
    /\ Cardinality(InitialCalls(calls, 2)) = 2
    /\ lastGeneratedPayloadRef # <<>>
    /\ \A c \in InitialCalls(calls, 2) :
          c.prompt.fullPrompt = lastGeneratedPayloadRef[1].fullPrompt

\* C33: prompt assembly runs for every batch that reaches its fan-out, also
\* when the optimized text comes from the cache: after the fan-out the
\* retained generation context holds the photos and the subject descriptions
\* of that batch's start_batch call, not those of an earlier batch.
C33_ContextFromOwnSubjects ==
    [][ \A b \in 1..Len(batches) :
           (batches[b].pc = "assembling" /\ batches'[b].pc = "generating")
               => LET ps       == batches[b].photos
                      retained == lastGeneratedPayloadRef'[1]
                  IN  /\ Len(retained.imageParts) = Len(ps)
                      /\ \A k \in 1..Len(ps) : retained.imageParts[k] = ps[k].file
                      /\ Len(retained.fullPrompt.manifest) = Len(allCharacters(ps))
                      /\ \A j \in 1..Len(allCharacters(ps)) :
                            /\ retained.fullPrompt.manifest[j].name
                                   = allCharacters(ps)[j].name
                            /\ retained.fullPrompt.manifest[j].description
                                   = allCharacters(ps)[j].description
                      /\ retained.fullPrompt.scene = batches[b].optimizedPrompt
       ]_vars

\* a second batch over the same scene text, served from the cache, started
\* after the subject's description was edited: the context holds the new one
C33_Witness ==
    /\ Len(batches) = 2
    /\ batches[1].photos = PhotoOne
    /\ batches[2].photos = PhotoTwo
    /\ batches[2].optimize = "hit"
    /\ batches[2].pc = "generating"
    /\ lastGeneratedPayloadRef # <<>>
    /\ lastGeneratedPayloadRef[1].fullPrompt.manifest[1].description = "d2"

\* the number of subjects of the photos before position k
SubjectsBefore(ps, k) == Len(allCharacters(SubSeq(ps, 1, k - 1)))

\* C34: prompt assembly returns one reference image per photo, in photo
\* order, and one manifest line per subject, in subject order; the line of a
\* subject carries the 1-based position, in the reference-image list, of the
\* photo that owns the subject.
C34_ManifestBindsOwnPhoto ==
    [][ \A b \in 1..Len(batches) :
           (batches[b].pc = "assembling" /\ batches'[b].pc = "generating")
               => LET ps     == batches[b].photos
                      result == lastGeneratedPayloadRef'[1]
                      lines  == result.fullPrompt.manifest
                  IN  /\ result.imageParts = [k \in 1..Len(ps) |-> ps[k].file]
                      /\ Len(lines) = SubjectsBefore(ps, Len(ps) + 1)
                      /\ \A k \in 1..Len(ps) :
                            \A j \in 1..Len(ps[k].characters) :
                               LET line == lines[SubjectsBefore(ps, k) + j]
                               IN  /\ line.ref = k
                                   /\ result.imageParts[line.ref] = ps[k].file
                                   /\ line.name = ps[k].characters[j].name
                                   /\ line.description
                                          = ps[k].characters[j].description
       ]_vars

\* three photos of which the second has no subject: the two manifest lines
\* point at the first and the third reference image
C34_Witness ==
    /\ lastGeneratedPayloadRef # <<>>
    /\ Len(lastGeneratedPayloadRef[1].imageParts) = 3
    /\ Len(lastGeneratedPayloadRef[1].fullPrompt.manifest) = 2
    /\ lastGeneratedPayloadRef[1].fullPrompt.manifest[1].ref = 1
    /\ lastGeneratedPayloadRef[1].fullPrompt.manifest[2].ref = 3

\* batch b is through: the busy flag is false and none of its items, as far
\* as they are still on display, is pending
Settled(b) ==
    /\ ~isGenerating
    /\ \A k \in 1..Len(generationResults) :
          generationResults[k].id[1] = b => generationResults[k].status # "pending"

\* C35: if every remote call returns, every started batch reaches a state in
\* which the busy flag is false and none of its items is pending, however
\* completions and cancel_batch interleave.
C35_BatchSettles ==
    \A b \in 1..MaxBatches : (Len(batches) >= b) ~> Settled(b)

\* a cancelled first batch and a second batch run to its end: all calls have
\* returned, nothing is pending, the busy flag is false
C35_Witness ==
    /\ Len(batches) = 2
    /\ batches[1].aborted /\ batches[1].pc = "done"
    /\ ~batches[2].aborted /\ batches[2].pc = "done"
    /\ calls = {}
    /\ Settled(2)
    /\ Len(generationResults) = 2

\* batch a is an older, cancelled batch whose pipeline has not finished, and
\* the newer batch b is the one whose controller is installed
Superseded(a, b) ==
    /\ a < b /\ b <= Len(batches)
    /\ batches[a].aborted /\ batches[a].pc # "done"
    /\ abortControllerRef = b /\ isGenerating

\* C36: when the pipeline of an older, cancelled batch finishes after a newer
\* batch was started, the busy flag stays true and the newer batch's
\* controller stays installed.
C36_OldCompletionKeepsNewBatch ==
    [][ \A a \in 1..Len(batches) : \A b \in 1..Len(batches) :
           (Superseded(a, b) /\ batches'[a].pc = "done")
               => (isGenerating' /\ abortControllerRef' = b) ]_vars

\* the cancelled first batch is down to its last call in flight while the
\* second batch is running its own calls: the next answer to the first batch
\* is its completion
C36_Witness ==
    /\ Superseded(1, 2)
    /\ batches[1].pc = "generating"
    /\ batches[2].pc = "generating"
    /\ Cardinality(InitialCalls(calls, 1)) = 1
    /\ InitialCalls(calls, 2) # {}

\* C37: the fields of a generation item agree with its status: it has a
\* result image if and only if its status is success, and it has an error
\* message only if its status is error.
C37_FieldsAgreeWithStatus ==
    \A k \in 1..Len(generationResults) :
        LET res == generationResults[k]
        IN  /\ (res.imageUrl # "") <=> (res.status = "success")
            /\ (res.errorMessage # "") => (res.status = "error")

\* the retry calls operation r issues in a step
IssuedBy(r, before, after) ==
    {c \in after \ before : c.src = "retry" /\ c.op = r}

\* the items in error, in list order
InError(results) == SelectSeq(results, LAMBDA res : res.status = "error")

\* a retry_all_failed is invoked: its first call is for the first item in
\* error, and what it has still to do are the other items in error, in order
RetryAllStarts(r) ==
    LET failed == InError(generationResults)
        issued == IssuedBy(r, calls, calls')
    IN  /\ failed # <<>>
        /\ Cardinality(issued) = 1
        /\ \A c \in issued : c.id = failed[1].id
        /\ Ids(retryOps'[r].queue) = Ids(Tail(failed))

\* a running retry_all_failed takes a step: it issues nothing and keeps its
\* list, or it issues the call of the next item of its list and drops the
\* item from the list; the list is never extended
RetryAllContinues(r) ==
    LET issued == IssuedBy(r, calls, calls')
        queue  == retryOps[r].queue
    IN  IF issued = {}
        THEN \/ retryOps'[r] = retryOps[r]
             \/ queue = <<>> /\ retryOps'[r].kind = "done"
        ELSE /\ queue # <<>>
             /\ Cardinality(issued) = 1
             /\ \A c \in issued : c.id = Head(queue).id
             /\ retryOps'[r].kind = "all"
             /\ retryOps'[r].queue = Tail(queue)

\* C38: one retry_all_failed retries exactly the items that were in error when
\* it was invoked, each once and in list order; an item that fails again is
\* not taken again, and the invocation ends once every remote call returns.
C38_RetryAllOncePerItem ==
    /\ [][ \A r \in 1..Len(retryOps') :
              /\ (r > Len(retryOps) /\ retryOps'[r].kind = "all")
                    => RetryAllStarts(r)
              /\ (r <= Len(retryOps) /\ retryOps[r].kind = "all")
                    => RetryAllContinues(r) ]_vars
    /\ \A r \in 1..MaxRetryOps :
          (r <= Len(retryOps) /\ retryOps[r].kind = "all")
              ~> (r <= Len(retryOps) /\ retryOps[r].kind = "done")

\* a single retry_all_failed over two failed items has ended: both were
\* retried once, and the first, which failed again, was left in error
C38_Witness ==
    /\ Len(retryOps) = 1 /\ retryOps[1].kind = "done"
    /\ calls = {}
    /\ Len(generationResults) = 2
    /\ \A k \in 1..2 : generationResults[k].retryCount = 1
    /\ generationResults[1].status = "error"
    /\ generationResults[2].status = "success"

\* the usage record of a generate call
GenerateRecord(c) == [action |-> GenerateAction, model |-> c.model]

\* the ledger has taken exactly the record rec in the step
Appended(rec) == usageLogs' = <<rec>> \o usageLogs

\* a step in which a generate call, the rewrite call of a batch or the
\* analysis call of an upload settles
CallSettles ==
    \/ calls \ calls' # {}
    \/ \E b \in 1..Len(batches) :
          batches[b].pc = "optimizing" /\ batches'[b].pc # "optimizing"
    \/ \E u \in 1..Len(uploads) :
          uploads[u].pc = "analyze" /\ uploads'[u].pc # "analyze"

GenerateLogged(c) ==
    LET cancelled == c.signal # 0 /\ IsAborted(c.signal)
    IN  /\ usageLogs' = usageLogs \/ Appended(GenerateRecord(c))
        /\ cancelled => usageLogs' = usageLogs
        /\ ~cancelled =>
              \A k \in 1..Len(generationResults') :
                  LET res == generationResults'[k]
                  IN  res.id = c.id =>
                        /\ res.status = "success" => Appended(GenerateRecord(c))
                        /\ (res.status = "error" /\ res.errorMessage = RefusedMessage)
                              => Appended(GenerateRecord(c))
                        /\ (res.status = "error" /\ res.errorMessage = QuotaMessage)
                              => usageLogs' = usageLogs

\* what the settling of the rewrite call of batch b does to the ledger: one
\* record if it was answered, also for a cancelled batch, none if it failed
RewriteLogged(b) ==
    IF batches'[b].optimize = "failed"
    THEN usageLogs' = usageLogs
    ELSE Appended([action |-> OptimizeAction, model |-> TextModel])

\* what the settling of the analysis call of upload u does to the ledger: at
\* most its own record, and one if subjects were read from the answer
AnalyzeLogged(u) ==
    LET rec == [action |-> AnalyzeAction, model |-> VisionModel]
    IN  /\ usageLogs' = usageLogs \/ Appended(rec)
        /\ \A k \in 1..Len(uploadedPhotos') :
              LET photo == uploadedPhotos'[k]
              IN  (/\ photo.id = uploads[u].photo
                   /\ photo.characters[1].description
                          \in {"d1", "Analysis unclear."})
                      => Appended(rec)

Present(ps, photoId) == \E k \in 1..Len(ps) : ps[k].id = photoId

\* upload u is through with its current photo in the step: the analysis was
\* answered, or the resize or the analysis threw
PhotoSettles(u) ==
    /\ u <= Len(uploads')
    /\ uploads[u].pc \in {"resize", "analyze"}
    /\ uploads'[u] # uploads[u]
    /\ ~(uploads[u].pc = "resize" /\ uploads'[u].pc = "analyze")

\* the current photo of an upload that is at work
InAnalysis(photoId) ==
    \E u \in 1..Len(uploads) :
        uploads[u].pc \in {"resize", "analyze"} /\ uploads[u].photo = photoId

====
